---- MODULE Spec2Model ----
(***************************************************************************)
(* Model of torq's device-control core: the adb transport (shell.py), the  *)
(* endpoint directory (AdbShell.get_adb_devices / verify_serial /          *)
(* get_default_serial), the AndroidDevice facade (device.py) and the       *)
(* top-level command runner (torq.py).                                     *)
(*                                                                         *)
(* A text is a sequence of pieces: single characters wherever the code     *)
(* looks at characters (separators, a line's first character, digits), and *)
(* longer pieces for the fixed words in between; str.split, indexing and   *)
(* formatting are computed on these sequences as Python computes them.     *)
(***************************************************************************)
EXTENDS Integers, Sequences, FiniteSets, TLC

VARIABLES
  raw,        \* SpecParse: stdout of one 'adb devices' call (text)
  parsed,     \* SpecParse: what get_adb_devices made of raw
  adbPresent, \* host: the adb binary is installed
  environ,    \* host: os.environ["ANDROID_SERIAL"], or None when unset
  attached,   \* host: the lines 'adb devices' currently reports, in adb's order
  device,     \* the serial bound into AndroidDevice(AdbShell(serial)), or None
  last,       \* the record of the last operation that returned or raised
  poll,       \* the polling wait in progress (root_device / reboot / wait_for_device)
  invocation, \* one invocation of torq: how far run() has got and what it did
  backends,   \* device: the processes started on it, in order of their start
  adbd        \* device: the state of the adb daemon of the bound device

vars == <<raw, parsed, adbPresent, environ, attached, device, last, poll, invocation,
          backends, adbd>>

-----------------------------------------------------------------------------
(* Bounds of the model *)

\* lines drawn for one raw 'adb devices' listing in SpecParse
MaxLines == 3
\* devices adb reports at one time in Spec
MaxAttached == 2

-----------------------------------------------------------------------------
(* Python values *)

\* Python's None: a value different from every text
None == <<"<None>">>

\* an option that was not passed (Python's None in args) is the empty tuple,
\* an option passed with the value v is <<v>>; a list option that was passed
\* is its non-empty list
NotPassed == <<>>
Passed(option) == option # NotPassed

\* ShellExitCodes (utils.py, not in src/; values as used by shell.py:69-76 and
\* the tests: EX_FAILURE is adb's plain failure, EX_NOTFOUND the shell's
\* 'command not found')
EX_SUCCESS == 0
EX_FAILURE == 1
EX_NOTFOUND == 127

\* an exception leaving a function: kind names the Python exception
Raised(kind, info) == [raised |-> TRUE, kind |-> kind, info |-> info]

-----------------------------------------------------------------------------
(* Text helpers: str.split, str.join *)

RECURSIVE IndexOf(_, _, _)
\* least i >= from with s[i] = ch, or 0
IndexOf(s, ch, from) ==
  IF from > Len(s) THEN 0
  ELSE IF s[from] = ch THEN from
  ELSE IndexOf(s, ch, from + 1)

RECURSIVE Split(_, _)
\* s.split(ch): always at least one piece
Split(s, ch) ==
  LET i == IndexOf(s, ch, 1) IN
  IF i = 0 THEN <<s>>
  ELSE <<SubSeq(s, 1, i - 1)>> \o Split(SubSeq(s, i + 1, Len(s)), ch)

\* s.split(ch, 1): at most two pieces
Split1(s, ch) ==
  LET i == IndexOf(s, ch, 1) IN
  IF i = 0 THEN <<s>>
  ELSE <<SubSeq(s, 1, i - 1), SubSeq(s, i + 1, Len(s))>>

RECURSIVE Join(_, _)
\* sep.join(pieces)
Join(pieces, sep) ==
  IF pieces = <<>> THEN <<>>
  ELSE IF Len(pieces) = 1 THEN pieces[1]
  ELSE pieces[1] \o sep \o Join(Tail(pieces), sep)

RECURSIVE Concat(_)
Concat(pieces) == IF pieces = <<>> THEN <<>> ELSE pieces[1] \o Concat(Tail(pieces))

Range(s) == {s[i] : i \in 1..Len(s)}

RECURSIVE SeqsUpTo(_, _)
\* all sequences over S of length <= n
SeqsUpTo(S, n) ==
  IF n = 0 THEN {<<>>}
  ELSE LET shorter == SeqsUpTo(S, n - 1) IN
       shorter \cup {Append(q, x) : q \in {p \in shorter : Len(p) = n - 1}, x \in S}

NL == "\n"
TAB == "\t"

-----------------------------------------------------------------------------
(* Texts of the adb device listing *)

SerialA == <<"A">>
SerialB == <<"B">>
SerialC == <<"C">>
Serials == {SerialA, SerialB, SerialC}

StatusDevice == <<"device">>
StatusOffline == <<"offline">>
StatusUnauthorized == <<"unauthorized">>

ListHeader == <<"L", "ist of devices attached">>
DaemonLine == <<"*", " daemon started successfully">>
NoTabLine == <<"a", "db: warning">>

ListingLine(id, status) == id \o <<TAB>> \o status

\* the text adb writes for a sequence of lines: each line ends with a newline
\* and the listing ends with one empty line
RenderLines(lines) == Concat([i \in 1..Len(lines) |-> lines[i] \o <<NL>>]) \o <<NL>>

-----------------------------------------------------------------------------
(* AdbShell.get_adb_devices, shell.py:78-96 *)

\* output_lines[:-2]
DropLastTwo(lines) == SubSeq(lines, 1, Len(lines) - 2)

RECURSIVE ScanLines(_, _)
\* the for loop of get_adb_devices over the lines left; devices is the list so
\* far. line[0] on an empty line and words_in_line[1] on a line without a tab
\* are Python IndexErrors.
ScanLines(lines, devices) ==
  IF lines = <<>> THEN [raised |-> FALSE, kind |-> "return", info |-> devices]
  ELSE LET line == Head(lines) IN
       IF line = <<>> THEN Raised("IndexError", <<"line[0]">>)
       ELSE IF line[1] = "*" \/ line = ListHeader THEN ScanLines(Tail(lines), devices)
       ELSE LET words_in_line == Split(line, TAB) IN
            IF Len(words_in_line) < 2 THEN Raised("IndexError", <<"words_in_line[1]">>)
            ELSE IF words_in_line[2] = StatusDevice
                 THEN ScanLines(Tail(lines), Append(devices, words_in_line[1]))
                 ELSE ScanLines(Tail(lines), devices)

\* get_adb_devices applied to the stdout of 'adb devices'
get_adb_devices(stdout) == ScanLines(DropLastTwo(Split(stdout, NL)), <<>>)

-----------------------------------------------------------------------------
(* The host: what the operating system answers to one subprocess call *)

\* a CompletedProcess, or the failure of the subprocess itself (oserror)
Completed(rc, out, err) ==
  [oserror |-> FALSE, returncode |-> rc, stdout |-> out, stderr |-> err]
SubprocessFailure ==
  [oserror |-> TRUE, returncode |-> 0 - 1, stdout |-> <<>>, stderr |-> <<>>]

\* run_subprocess (utils.py): the process's result when it exits with 0 or with
\* a code in ignore_returncodes; every other exit and every failure of the
\* subprocess itself raises.
run_subprocess(resp, ignore_returncodes) ==
  IF resp.oserror THEN Raised("SubprocessError", <<"subprocess">>)
  ELSE IF resp.returncode # EX_SUCCESS /\ resp.returncode \notin ignore_returncodes
       THEN Raised("CalledProcessError", <<resp.returncode>>)
       ELSE [raised |-> FALSE, kind |-> "return", info |-> resp]

\* the ids adb currently reports with status "device", in adb's order
RECURSIVE ReachableIds(_)
ReachableIds(entries) ==
  IF entries = <<>> THEN <<>>
  ELSE IF Head(entries).status = StatusDevice
       THEN <<Head(entries).id>> \o ReachableIds(Tail(entries))
       ELSE ReachableIds(Tail(entries))

Reachable(serial) == serial \in Range(ReachableIds(attached))

\* what running "adb" through the shell may answer: adb prints its help and
\* exits with 1; a shell without adb exits with 127
AdbBareResponses ==
  {IF adbPresent THEN Completed(EX_FAILURE, <<>>, <<>>)
                 ELSE Completed(EX_NOTFOUND, <<>>, <<>>),
   SubprocessFailure}

\* what 'adb devices' may answer now: the listing, with or without the lines
\* of a daemon start before it; a failing adb server; a failing subprocess
AdbDevicesResponses ==
  IF ~adbPresent THEN {SubprocessFailure}
  ELSE LET body == <<ListHeader>> \o
                   [i \in 1..Len(attached) |->
                      ListingLine(attached[i].id, attached[i].status)]
       IN {Completed(EX_SUCCESS, RenderLines(body), <<>>),
           Completed(EX_SUCCESS, RenderLines(<<DaemonLine>> \o body), <<>>),
           Completed(EX_FAILURE, <<>>, <<>>),
           SubprocessFailure}

-----------------------------------------------------------------------------
(* ValidationError (base.py) and texts built with % *)

ValidationError(message, suggestion) == <<"ValidationError", message, suggestion>>
IsValidationError(v) == Len(v) = 3 /\ v[1] = "ValidationError"
Message(e) == e[2]
Suggestion(e) == e[3]

\* the text names id: id occurs in it
Names(text, id) ==
  \E i \in 1..Len(text) : i + Len(id) - 1 <= Len(text) /\ SubSeq(text, i, i + Len(id) - 1) = id

MsgAdbNotFound == <<"adb could not be found on the host device.">>
MsgNoDevices == <<"There are currently no devices connected.">>
MsgEnvNotConnected(serial) ==
  <<"Device with serial ">> \o serial \o
  <<" is set as environment variable, ANDROID_SERIAL, but is not connected.">>
MsgNotConnected(serial) ==
  <<"Device with serial ">> \o serial \o <<" is not connected.">>

-----------------------------------------------------------------------------
(* AdbShell.adb_exists, shell.py:67-76 *)

adb_exists(rAdb) ==
  LET r == run_subprocess(rAdb, {EX_FAILURE, EX_NOTFOUND}) IN
  IF r.raised THEN r
  ELSE [raised |-> FALSE, kind |-> "return", info |-> ~(r.info.returncode = EX_NOTFOUND)]

\* 'adb devices' run and parsed: run_subprocess(["adb", "devices"]) declares no
\* ignorable exit code (shell.py:87)
ListDevices(rDevices) ==
  LET r == run_subprocess(rDevices, {}) IN
  IF r.raised THEN r ELSE get_adb_devices(r.info.stdout)

-----------------------------------------------------------------------------
(* AdbShell.verify_serial, shell.py:141-152 *)

\* reads: what the call consulted, in order
Returned(value, reads) ==
  [raised |-> FALSE, kind |-> "return", info |-> <<>>, value |-> value, reads |-> reads]
Propagated(r, reads) ==
  [raised |-> TRUE, kind |-> r.kind, info |-> r.info, value |-> <<>>, reads |-> reads]

\* verify_serial without its membership test
verify_serial_AnyDevice(serial, rAdb, rDevices) ==
  LET exists == adb_exists(rAdb) IN
  IF exists.raised THEN Propagated(exists, <<"adb">>)
  ELSE IF ~exists.info
       THEN Returned(ValidationError(MsgAdbNotFound, None), <<"adb">>)
  ELSE LET devices == ListDevices(rDevices) IN
  IF devices.raised THEN Propagated(devices, <<"adb", "devices">>)
  ELSE IF Len(devices.info) = 0
       THEN Returned(ValidationError(MsgNoDevices, None), <<"adb", "devices">>)
  ELSE Returned(None, <<"adb", "devices">>)

verify_serial(serial, rAdb, rDevices) ==
  LET exists == adb_exists(rAdb) IN
  IF exists.raised THEN Propagated(exists, <<"adb">>)
  ELSE IF ~exists.info
       THEN Returned(ValidationError(MsgAdbNotFound, None), <<"adb">>)
  ELSE LET devices == ListDevices(rDevices) IN
  IF devices.raised THEN Propagated(devices, <<"adb", "devices">>)
  ELSE IF Len(devices.info) = 0
       THEN Returned(ValidationError(MsgNoDevices, None), <<"adb", "devices">>)
  ELSE IF serial \notin Range(devices.info)
       THEN Returned(ValidationError(MsgNotConnected(serial), None), <<"adb", "devices">>)
  ELSE Returned(None, <<"adb", "devices">>)

-----------------------------------------------------------------------------
(* HandleInput(...).handle_input (handle_input.py) and the menu of            *)
(* get_default_serial, shell.py:117-134                                      *)

Digits == <<"0","1","2","3","4","5","6","7","8","9">>

RECURSIVE Str(_)
\* str(i) for i >= 0
Str(i) == IF i < 10 THEN <<Digits[i + 1]>> ELSE Str(i \div 10) \o <<Digits[(i % 10) + 1]>>

\* choices[str(i)] = lambda d=device: d, for i, device in enumerate(devices):
\* the default argument binds the device of that iteration
BuildChoicesLateBinding(devices) ==
  [i \in 1..Len(devices) |-> [key |-> Str(i - 1), d |-> devices[Len(devices)]]]

BuildChoices(devices) ==
  [i \in 1..Len(devices) |-> [key |-> Str(i - 1), d |-> devices[i]]]

MsgInvalidInput == <<"Invalid inputs.">>
MsgSelectValid == <<"Please select a valid option.">>

\* handle_input: the callback of the choice the user typed, or a
\* ValidationError carrying the fail suggestion when the text typed is no key
handle_input(fail_suggestion, choices, typed) ==
  IF \E i \in 1..Len(choices) : choices[i].key = typed
  THEN choices[CHOOSE i \in 1..Len(choices) : choices[i].key = typed].d
  ELSE ValidationError(MsgInvalidInput, fail_suggestion)

-----------------------------------------------------------------------------
(* AdbShell.get_default_serial, shell.py:98-139 *)

\* value is the pair (serial, error)
get_default_serial_EnvFirst(rAdb, rDevices, typed) ==
  LET exists == adb_exists(rAdb) IN
  IF exists.raised THEN Propagated(exists, <<"adb">>)
  ELSE IF ~exists.info
       THEN Returned(<<None, ValidationError(MsgAdbNotFound, None)>>, <<"adb">>)
  ELSE LET devices == ListDevices(rDevices) IN
  IF devices.raised THEN Propagated(devices, <<"adb", "devices">>)
  ELSE IF environ # None
       THEN IF environ \notin Range(devices.info)
            THEN Returned(<<None, ValidationError(MsgEnvNotConnected(environ), None)>>,
                          <<"adb", "devices", "environ">>)
            ELSE Returned(<<environ, None>>, <<"adb", "devices", "environ">>)
  ELSE IF Len(devices.info) = 0
       THEN Returned(<<None, ValidationError(MsgNoDevices, None)>>,
                     <<"adb", "devices", "environ">>)
  ELSE IF Len(devices.info) = 1
       THEN Returned(<<devices.info[1], None>>, <<"adb", "devices", "environ">>)
  ELSE LET chosen_serial == handle_input(MsgSelectValid, BuildChoices(devices.info), typed) IN
       IF IsValidationError(chosen_serial)
       THEN Returned(<<None, chosen_serial>>, <<"adb", "devices", "environ", "input">>)
       ELSE Returned(<<chosen_serial, None>>, <<"adb", "devices", "environ", "input">>)

get_default_serial(rAdb, rDevices, typed) ==
  LET exists == adb_exists(rAdb) IN
  IF exists.raised THEN Propagated(exists, <<"adb">>)
  ELSE IF ~exists.info
       THEN Returned(<<None, ValidationError(MsgAdbNotFound, None)>>, <<"adb">>)
  ELSE LET devices == ListDevices(rDevices) IN
  IF devices.raised THEN Propagated(devices, <<"adb", "devices">>)
  ELSE IF Len(devices.info) = 0
       THEN Returned(<<None, ValidationError(MsgNoDevices, None)>>, <<"adb", "devices">>)
  ELSE IF environ # None
       THEN IF environ \notin Range(devices.info)
            THEN Returned(<<None, ValidationError(MsgEnvNotConnected(environ), None)>>,
                          <<"adb", "devices", "environ">>)
            ELSE Returned(<<environ, None>>, <<"adb", "devices", "environ">>)
  ELSE IF Len(devices.info) = 1
       THEN Returned(<<devices.info[1], None>>, <<"adb", "devices", "environ">>)
  ELSE LET chosen_serial == handle_input(MsgSelectValid, BuildChoices(devices.info), typed) IN
       IF IsValidationError(chosen_serial)
       THEN Returned(<<None, chosen_serial>>, <<"adb", "devices", "environ", "input">>)
       ELSE Returned(<<chosen_serial, None>>, <<"adb", "devices", "environ", "input">>)

-----------------------------------------------------------------------------
(* get_device, device.py:34-48 *)

\* args_serial is args.serial: the one-element list argparse builds for
\* --serial, or, without --serial, None, which 'if args.serial' treats as the
\* empty list, written <<>> here. value is the pair (device, error); a device
\* is the serial bound into AndroidDevice(AdbShell(serial)).
get_device_FlagDecidesAll(args_serial, is_device_required, rAdb, rDevices, typed) ==
  IF args_serial # <<>>
  THEN LET serial == args_serial[1]
           error == verify_serial(serial, rAdb, rDevices) IN
       IF error.raised THEN error
       ELSE IF error.value # None
            THEN IF is_device_required
                 THEN Returned(<<None, error.value>>, error.reads)
                 ELSE Returned(<<None, None>>, error.reads)
            ELSE Returned(<<serial, None>>, error.reads)
  ELSE LET r == get_default_serial(rAdb, rDevices, typed) IN
       IF r.raised THEN r
       ELSE IF r.value[2] = None THEN Returned(<<r.value[1], None>>, r.reads)
       ELSE IF is_device_required THEN Returned(<<None, r.value[2]>>, r.reads)
       ELSE Returned(<<None, None>>, r.reads)

get_device(args_serial, is_device_required, rAdb, rDevices, typed) ==
  IF args_serial # <<>>
  THEN LET serial == args_serial[1]
           error == verify_serial(serial, rAdb, rDevices) IN
       IF error.raised THEN error
       ELSE IF error.value # None THEN Returned(<<None, error.value>>, error.reads)
       ELSE Returned(<<serial, None>>, error.reads)
  ELSE LET r == get_default_serial(rAdb, rDevices, typed) IN
       IF r.raised THEN r
       ELSE IF r.value[2] = None THEN Returned(<<r.value[1], None>>, r.reads)
       ELSE IF is_device_required THEN Returned(<<None, r.value[2]>>, r.reads)
       ELSE Returned(<<None, None>>, r.reads)

-----------------------------------------------------------------------------
(* AdbShell.run, shell.py:166-185, and what the device answers *)

MsgDeviceNotFound(serial) == <<"adb: device '">> \o serial \o <<"' not found">>

\* what 'adb -s serial ...' may answer now: adb itself fails with exit code 1
\* when the serial is not a reachable device; normal is what the command
\* answers on a reachable device
DeviceResponses(serial, normal) ==
  IF ~adbPresent THEN {SubprocessFailure}
  ELSE IF ~Reachable(serial)
       THEN {Completed(EX_FAILURE, <<>>, MsgDeviceNotFound(serial)), SubprocessFailure}
       ELSE normal \cup {SubprocessFailure}

Plain == {Completed(EX_SUCCESS, <<>>, <<>>), Completed(EX_FAILURE, <<>>, <<"failed">>)}

\* one transport call of an operation: the command, the exit codes the caller
\* declared ignorable, the host's answer, and what run_subprocess made of it
ShellRun(cmd, ignore_returncodes, resp) ==
  [cmd |-> cmd, ignore |-> ignore_returncodes, resp |-> resp,
   result |-> run_subprocess(resp, ignore_returncodes)]

\* the trace of one transport call: what was asked, how the process ended and
\* whether the call raised
Log(c) ==
  [cmd |-> c.cmd, ignore |-> c.ignore, oserror |-> c.resp.oserror,
   returncode |-> c.resp.returncode, raised |-> c.result.raised,
   kind |-> c.result.kind, info |-> IF c.result.raised THEN c.result.info ELSE <<>>]

\* how an operation ends: with a value (Done), with the exception its
\* transport call c raised (Fault), or with an exception of its own (Throw);
\* calls are the traces of the transport calls it made, in order
Done(value, calls) ==
  [raised |-> FALSE, kind |-> "return", info |-> <<>>, value |-> value, calls |-> calls]
Fault(c, calls) ==
  [raised |-> TRUE, kind |-> c.result.kind, info |-> c.result.info, value |-> <<>>,
   calls |-> calls]
Throw(kind, info, calls) ==
  [raised |-> TRUE, kind |-> kind, info |-> info, value |-> <<>>, calls |-> calls]

-----------------------------------------------------------------------------
(* AndroidDevice operations, device.py *)

\* device.py:230-235
get_pid(resp) ==
  LET c == ShellRun("pidof", {EX_FAILURE}, resp) IN
  IF c.result.raised THEN Fault(c, <<Log(c)>>)
  ELSE Done(Split(c.result.info.stdout, NL)[1], <<Log(c)>>)

\* device.py:237-238
is_process_running(resp) ==
  LET pid == get_pid(resp) IN
  IF pid.raised THEN pid ELSE Done(pid.value # <<>>, pid.calls)

\* device.py:252-255, with the kill command issued whatever get_pid returned
kill_process_Unconditional(r1, r2) ==
  LET pid == get_pid(r1) IN
  IF pid.raised THEN pid
  ELSE LET c == ShellRun("kill", {}, r2) IN
       IF c.result.raised THEN Fault(c, pid.calls \o <<Log(c)>>)
       ELSE Done(None, pid.calls \o <<Log(c)>>)

\* device.py:252-255, with the fault of the kill command swallowed
kill_process_Swallow(r1, r2) ==
  LET pid == get_pid(r1) IN
  IF pid.raised THEN pid
  ELSE IF pid.value # <<>>
       THEN Done(None, pid.calls \o <<Log(ShellRun("kill", {}, r2))>>)
       ELSE Done(None, pid.calls)

\* device.py:252-255
kill_process(r1, r2) ==
  LET pid == get_pid(r1) IN
  IF pid.raised THEN pid
  ELSE IF pid.value # <<>>
       THEN LET c == ShellRun("kill", {}, r2) IN
            IF c.result.raised THEN Fault(c, pid.calls \o <<Log(c)>>)
            ELSE Done(None, pid.calls \o <<Log(c)>>)
       ELSE Done(None, pid.calls)

\* device.py:193-194
set_prop(resp) ==
  LET c == ShellRun("setprop", {}, resp) IN
  IF c.result.raised THEN Fault(c, <<Log(c)>>) ELSE Done(None, <<Log(c)>>)

\* device.py:187-188
perform_user_switch(resp) ==
  LET c == ShellRun("switch-user", {}, resp) IN
  IF c.result.raised THEN Fault(c, <<Log(c)>>) ELSE Done(None, <<Log(c)>>)

\* device.py:158-162
pull_file(resp) ==
  LET c == ShellRun("pull", {EX_FAILURE}, resp) IN
  IF c.result.raised THEN Fault(c, <<Log(c)>>)
  ELSE Done(c.result.info.returncode = 0, <<Log(c)>>)

\* device.py:133-137
file_exists(resp) ==
  LET c == ShellRun("ls", {EX_FAILURE}, resp) IN
  IF c.result.raised THEN Fault(c, <<Log(c)>>)
  ELSE Done(c.result.info.returncode = 0, <<Log(c)>>)

\* device.py:127-131
remove_file(resp) ==
  LET c == ShellRun("rm", {EX_FAILURE}, resp) IN
  IF c.result.raised THEN Fault(c, <<Log(c)>>)
  ELSE Done(c.result.info.returncode = 0, <<Log(c)>>)

\* int(text): the number a text of decimal digits denotes; anything else is a
\* ValueError
IsDigits(text) == text # <<>> /\ \A i \in 1..Len(text) : \E d \in 1..10 : Digits[d] = text[i]
RECURSIVE IntOf(_)
IntOf(text) ==
  IF text = <<>> THEN 0
  ELSE IntOf(SubSeq(text, 1, Len(text) - 1)) * 10
       + (CHOOSE d \in 0..9 : Digits[d + 1] = text[Len(text)])

RECURSIVE ParseUsers(_, _)
\* the list comprehension of get_all_users, device.py:168-170
ParseUsers(lines, users) ==
  IF lines = <<>> THEN [raised |-> FALSE, kind |-> "return", info |-> users]
  ELSE LET brace == Split1(Head(lines), "{") IN
       IF Len(brace) < 2 THEN Raised("IndexError", <<"split('{')[1]">>)
       ELSE LET id == Split1(brace[2], ":")[1] IN
            IF ~IsDigits(id) THEN Raised("ValueError", <<"int()">>)
            ELSE ParseUsers(Tail(lines), Append(users, IntOf(id)))

\* a variant of get_all_users that also drops the line of the first user
get_all_users_SkipsFirstUser(resp) ==
  LET c == ShellRun("pm list users", {}, resp) IN
  IF c.result.raised THEN Fault(c, <<Log(c)>>)
  ELSE LET all == Split(c.result.info.stdout, NL)
           output_lines == SubSeq(all, 3, Len(all) - 1)
           users == ParseUsers(output_lines, <<>>) IN
       IF users.raised THEN Throw(users.kind, users.info, <<Log(c)>>)
       ELSE Done(users.info, <<Log(c)>>)

\* device.py:164-170
get_all_users(resp) ==
  LET c == ShellRun("pm list users", {}, resp) IN
  IF c.result.raised THEN Fault(c, <<Log(c)>>)
  ELSE LET all == Split(c.result.info.stdout, NL)
           output_lines == SubSeq(all, 2, Len(all) - 1)
           users == ParseUsers(output_lines, <<>>) IN
       IF users.raised THEN Throw(users.kind, users.info, <<Log(c)>>)
       ELSE Done(users.info, <<Log(c)>>)

RECURSIVE JoinInts(_)
\* ", ".join(map(str, users))
JoinInts(users) ==
  IF users = <<>> THEN <<>>
  ELSE IF Len(users) = 1 THEN Str(users[1])
  ELSE Str(users[1]) \o <<", ">> \o JoinInts(Tail(users))

\* device.py:172-180
user_exists(user, serial, resp) ==
  LET users == get_all_users(resp) IN
  IF users.raised THEN users
  ELSE IF user \notin Range(users.value)
       THEN Done(ValidationError(
                   <<"User ID ">> \o Str(user) \o
                   <<" does not exist on device with serial ">> \o serial \o <<".">>,
                   <<"Select from one of the following user IDs on device with serial ">>
                   \o serial \o <<": ">> \o JoinInts(users.value)),
                 users.calls)
       ELSE Done(None, users.calls)

\* the text 'pm list users' prints for the users with these ids
UsersText(ids) ==
  <<"Users:", NL>> \o
  Concat([i \in 1..Len(ids) |->
            <<TAB, "UserInfo", "{">> \o Str(ids[i]) \o <<":", "Driver", ":", "813", "}", NL>>])

UsersResponses ==
  {Completed(EX_SUCCESS, UsersText(<<0>>), <<>>),
   Completed(EX_SUCCESS, UsersText(<<0, 10>>), <<>>),
   Completed(EX_FAILURE, <<>>, <<"failed">>)}

PidText == <<"8","2","4","1">>
PidofResponses ==
  {Completed(EX_SUCCESS, PidText \o <<NL>>, <<>>), Completed(EX_FAILURE, <<>>, <<>>)}

-----------------------------------------------------------------------------
(* poll_is_task_completed (utils.py) and the waits built on it *)

ADB_ROOT_TIMED_OUT_LIMIT_SECS == 5
WAIT_FOR_DEVICE_TIME_OUT_SECS == 5
\* POLLING_INTERVAL_SECS = 0.5, in tenths of a second
POLLING_INTERVAL_TENTHS == 5
Tenths(secs) == secs * 10

\* one round of poll_is_task_completed(timed_out_limit, interval, predicate):
\* p.elapsed is the time slept since the call began (an evaluation of the
\* predicate is taken to be short against the interval); the predicate was
\* just evaluated and gave `verdict` (a truth value, or the exception it
\* raised). The round returns True on a true verdict, lets an exception
\* through, returns False once the time elapsed exceeds the limit, and
\* otherwise sleeps one interval before the next round.
\* a round that sleeps on after a true verdict
PollRoundSleepsOn(p, verdict) ==
  LET seen == [p EXCEPT !.evals = p.evals + 1,
                        !.trues = p.trues + (IF ~verdict.raised /\ verdict.info THEN 1 ELSE 0)] IN
  IF verdict.raised
  THEN [state |-> "raised", p |-> seen]
  ELSE IF p.elapsed > p.limit
       THEN [state |-> IF verdict.info THEN "true" ELSE "false", p |-> seen]
  ELSE [state |-> "sleeping",
        p |-> [seen EXCEPT !.elapsed = p.elapsed + p.interval, !.sleeps = p.sleeps + 1]]

PollRound(p, verdict) ==
  LET seen == [p EXCEPT !.evals = p.evals + 1] IN
  IF verdict.raised
  THEN [state |-> "raised", p |-> seen]
  ELSE IF verdict.info
       THEN [state |-> "true", p |-> [seen EXCEPT !.trues = p.trues + 1]]
  ELSE IF p.elapsed > p.limit
       THEN [state |-> "false", p |-> seen]
  ELSE [state |-> "sleeping",
        p |-> [seen EXCEPT !.elapsed = p.elapsed + p.interval, !.sleeps = p.sleeps + 1]]

\* the wait as it starts: nothing evaluated, no time elapsed
PollBegin(op, serial, limit, interval, calls) ==
  [op |-> op, serial |-> serial, limit |-> limit, interval |-> interval,
   elapsed |-> 0, evals |-> 0, trues |-> 0, sleeps |-> 0, calls |-> calls]

\* the predicates polled: device.py:123, device.py:203, shell.py:190
RootPredicateAlwaysTrue(serial, devices) == TRUE
RootPredicate(serial, devices) == serial \in Range(devices)
RebootPredicate(serial, devices) == serial \notin Range(devices)
WaitPredicate(serial, devices) == serial \in Range(devices)

Predicate(op, serial, devices) ==
  CASE op = "root_device" -> RootPredicate(serial, devices)
    [] op = "reboot" -> RebootPredicate(serial, devices)
    [] op = "wait_for_device" -> WaitPredicate(serial, devices)

MsgRootTimeout(serial) ==
  <<"Device with serial ">> \o serial \o <<" took too long to reconnect after being rooted.">>
MsgRebootTimeout(serial) ==
  <<"Device with serial ">> \o serial \o <<" took too long to start rebooting.">>

\* what the operation does with the value poll_is_task_completed returned:
\* device.py:121-125, device.py:201-205, shell.py:188
OnPolled(p, value) ==
  CASE p.op = "root_device" ->
         IF ~value THEN Throw("Exception", MsgRootTimeout(p.serial), p.calls)
         ELSE Done(None, p.calls)
    [] p.op = "reboot" ->
         IF ~value THEN Throw("Exception", MsgRebootTimeout(p.serial), p.calls)
         ELSE Done(None, p.calls)
    [] p.op = "wait_for_device" -> Done(value, p.calls)

-----------------------------------------------------------------------------
(* SpecParse: get_adb_devices over raw listings *)

LinePool ==
  { ListHeader, DaemonLine, <<>>, NoTabLine,
    ListingLine(SerialA, StatusDevice), ListingLine(SerialB, StatusDevice),
    ListingLine(SerialA, StatusOffline), ListingLine(SerialB, StatusUnauthorized) }

Unparsed == [raised |-> FALSE, kind |-> "unset", info |-> <<>>]

Idle == [op |-> "none"]

\* torq has not been invoked
NotInvoked == [pc |-> "none"]

ParseInit ==
  /\ raw \in {RenderLines(ls) : ls \in SeqsUpTo(LinePool, MaxLines)}
  /\ parsed = Unparsed
  /\ adbPresent = TRUE
  /\ environ = None
  /\ attached = <<>>
  /\ device = None
  /\ last = Idle
  /\ poll = Idle
  /\ invocation = NotInvoked
  /\ backends = <<>>
  /\ adbd = "user"

ParseListing ==
  /\ parsed = Unparsed
  /\ parsed' = get_adb_devices(raw)
  /\ UNCHANGED <<raw, adbPresent, environ, attached, device, last, poll, invocation, backends, adbd>>

ParseNext == ParseListing

SpecParse == ParseInit /\ [][ParseNext]_vars

-----------------------------------------------------------------------------
(* The host and the calls of the one control thread *)

Statuses == {StatusDevice, StatusOffline}

\* the listings adb can report: distinct ids, at most MaxAttached lines
Listings ==
  {l \in SeqsUpTo([id : Serials, status : Statuses], MaxAttached) :
     \A i, j \in 1..Len(l) : i # j => l[i].id # l[j].id}

\* what the user may type at the menu
Typed == {<<"0">>, <<"1">>, <<"2">>, <<"3">>, <<"0", "1">>, <<"-", "1">>, <<"a">>, <<>>}

UserIds == {0, 3}

\* the record of an operation that ended: out is how it ended; serial the
\* serial it addressed; reachable whether adb reported that serial as a device
\* when the operation was called
Ended(op, arg, serial, out) ==
  [op |-> op, arg |-> arg, serial |-> serial, reachable |-> Reachable(serial), out |-> out]

\* the same for a call of the directory, with the ids adb reported as devices
\* when it was called
DirEnded(op, arg, serial, out) ==
  [op |-> op, arg |-> arg, serial |-> serial, reachable |-> Reachable(serial), out |-> out,
   listed |-> ReachableIds(attached)]

\* the process has just started: no device object, no call made yet
Init ==
  /\ raw = <<>>
  /\ parsed = Unparsed
  /\ adbPresent \in BOOLEAN
  /\ environ \in {None, SerialA}
  /\ attached \in (IF adbPresent THEN Listings ELSE {<<>>})
  /\ device = None
  /\ last = Idle
  /\ poll = Idle
  /\ invocation = NotInvoked
  /\ backends = <<>>
  /\ adbd = "user"

\* a device attaches, detaches or changes status
Attach ==
  /\ adbPresent
  /\ Len(attached) < MaxAttached
  /\ \E id \in Serials, st \in Statuses :
       /\ \A i \in 1..Len(attached) : attached[i].id # id
       /\ attached' = Append(attached, [id |-> id, status |-> st])
  /\ UNCHANGED <<raw, parsed, adbPresent, environ, device, last, poll, invocation, backends, adbd>>

Detach ==
  /\ \E i \in 1..Len(attached) :
       attached' = SubSeq(attached, 1, i - 1) \o SubSeq(attached, i + 1, Len(attached))
  /\ UNCHANGED <<raw, parsed, adbPresent, environ, device, last, poll, invocation, backends, adbd>>

ChangeStatus ==
  /\ \E i \in 1..Len(attached), st \in Statuses :
       /\ st # attached[i].status
       /\ attached' = [attached EXCEPT ![i].status = st]
  /\ UNCHANGED <<raw, parsed, adbPresent, environ, device, last, poll, invocation, backends, adbd>>

Host == UNCHANGED <<raw, parsed, adbPresent, environ, attached, invocation, backends, adbd>>

GetDeviceWith(typedSet, requiredSet) ==
  /\ \E args_serial \in {<<>>} \cup {<<s>> : s \in Serials}, is_device_required \in requiredSet,
        typed \in typedSet, rAdb \in AdbBareResponses, rDevices \in AdbDevicesResponses :
       LET out == get_device(args_serial, is_device_required, rAdb, rDevices, typed) IN
       /\ last' = DirEnded("get_device", <<args_serial, <<is_device_required>>, typed>>,
                           IF args_serial = <<>> THEN None ELSE args_serial[1], out)
       /\ device' = IF out.raised THEN device ELSE out.value[1]
  /\ UNCHANGED poll /\ Host

VerifySerial ==
  /\ last = Idle
  /\ \E serial \in Serials, rAdb \in AdbBareResponses, rDevices \in AdbDevicesResponses :
       last' = DirEnded("verify_serial", <<serial>>, serial,
                        verify_serial(serial, rAdb, rDevices))
  /\ UNCHANGED <<device, poll>> /\ Host

GetDefaultSerial ==
  /\ last = Idle
  /\ \E typed \in Typed, rAdb \in AdbBareResponses, rDevices \in AdbDevicesResponses :
       last' = DirEnded("get_default_serial", <<typed>>, None,
                        get_default_serial(rAdb, rDevices, typed))
  /\ UNCHANGED <<device, poll>> /\ Host

\* get_device called with every --serial, flag and menu answer
GetDevice ==
  /\ last = Idle
  /\ GetDeviceWith(Typed, BOOLEAN)

\* the command resolves its device: get_device until a device is bound
BindDevice ==
  /\ poll = Idle /\ device = None
  /\ GetDeviceWith({<<"1">>}, {TRUE})
GetPid ==
  /\ poll = Idle /\ device # None
  /\ \E r \in DeviceResponses(device, PidofResponses) :
       last' = Ended("get_pid", <<>>, device, get_pid(r))
  /\ UNCHANGED <<device, poll>> /\ Host

IsProcessRunning ==
  /\ poll = Idle /\ device # None
  /\ \E r \in DeviceResponses(device, PidofResponses) :
       last' = Ended("is_process_running", <<>>, device, is_process_running(r))
  /\ UNCHANGED <<device, poll>> /\ Host

KillProcess ==
  /\ poll = Idle /\ device # None
  /\ \E r1 \in DeviceResponses(device, PidofResponses), r2 \in DeviceResponses(device, Plain) :
       last' = Ended("kill_process", <<>>, device, kill_process(r1, r2))
  /\ UNCHANGED <<device, poll>> /\ Host

SetProp ==
  /\ poll = Idle /\ device # None
  /\ \E r \in DeviceResponses(device, Plain) :
       last' = Ended("set_prop", <<>>, device, set_prop(r))
  /\ UNCHANGED <<device, poll>> /\ Host

PerformUserSwitch ==
  /\ poll = Idle /\ device # None
  /\ \E r \in DeviceResponses(device, Plain) :
       last' = Ended("perform_user_switch", <<>>, device, perform_user_switch(r))
  /\ UNCHANGED <<device, poll>> /\ Host

PullFile ==
  /\ poll = Idle /\ device # None
  /\ \E r \in DeviceResponses(device, Plain) :
       last' = Ended("pull_file", <<>>, device, pull_file(r))
  /\ UNCHANGED <<device, poll>> /\ Host

FileExists ==
  /\ poll = Idle /\ device # None
  /\ \E r \in DeviceResponses(device, Plain) :
       last' = Ended("file_exists", <<>>, device, file_exists(r))
  /\ UNCHANGED <<device, poll>> /\ Host

RemoveFile ==
  /\ poll = Idle /\ device # None
  /\ \E r \in DeviceResponses(device, Plain) :
       last' = Ended("remove_file", <<>>, device, remove_file(r))
  /\ UNCHANGED <<device, poll>> /\ Host

UserExists ==
  /\ poll = Idle /\ device # None
  /\ \E user \in UserIds, r \in DeviceResponses(device, UsersResponses) :
       last' = Ended("user_exists", <<user>>, device, user_exists(user, device, r))
  /\ UNCHANGED <<device, poll>> /\ Host

\* the arg of a wait that ended before its first round
NotPolled == [state |-> "none", p |-> Idle]

\* root_device and reboot up to their wait, device.py:120 and device.py:200;
\* AdbShell.wait_for_device, shell.py:187-190, issues no command. While the
\* wait is in progress no operation has ended last.
BeginWait ==
  /\ poll = Idle /\ device # None
  /\ \/ \E op \in {"root_device", "reboot"}, r \in DeviceResponses(device, Plain) :
          LET c == ShellRun(IF op = "root_device" THEN "root" ELSE "reboot", {}, r) IN
          IF c.result.raised
          THEN /\ last' = Ended(op, NotPolled, device, Fault(c, <<Log(c)>>))
               /\ poll' = poll
          ELSE /\ poll' = PollBegin(op, device, Tenths(ADB_ROOT_TIMED_OUT_LIMIT_SECS),
                                    POLLING_INTERVAL_TENTHS, <<Log(c)>>)
               /\ last' = Idle
     \/ /\ poll' = PollBegin("wait_for_device", device, Tenths(WAIT_FOR_DEVICE_TIME_OUT_SECS),
                             POLLING_INTERVAL_TENTHS, <<>>)
        /\ last' = Idle
  /\ UNCHANGED device /\ Host

\* one round of the wait in progress: the predicate reads the listing as it is
\* now
PollStep ==
  /\ poll # Idle
  /\ \E rDevices \in AdbDevicesResponses :
       LET c == ShellRun("devices", {}, rDevices)
           devices == ListDevices(rDevices)
           verdict == IF devices.raised THEN devices
                      ELSE [raised |-> FALSE, kind |-> "return",
                            info |-> Predicate(poll.op, poll.serial, devices.info)]
           round == PollRound(poll, verdict)
           \* the calls of the whole operation: its command and the listing
           \* read by the round that ended it
           ended == [round.p EXCEPT !.calls = poll.calls \o <<Log(c)>>] IN
       CASE round.state = "sleeping" -> poll' = round.p /\ last' = Idle
         [] round.state = "raised" ->
              /\ poll' = Idle
              /\ last' = Ended(poll.op, [state |-> round.state, p |-> round.p], poll.serial,
                               Throw(verdict.kind, verdict.info, ended.calls))
         [] OTHER ->
              /\ poll' = Idle
              /\ last' = Ended(poll.op, [state |-> round.state, p |-> round.p], poll.serial,
                               OnPolled(ended, round.state = "true"))
  /\ UNCHANGED device /\ Host

\* Spec: the host changes while the control thread binds a device, calls the
\* facade and waits on the device
Next ==
  \/ Attach \/ Detach \/ ChangeStatus
  \/ BindDevice
  \/ GetPid \/ IsProcessRunning \/ KillProcess \/ SetProp \/ PerformUserSwitch
  \/ PullFile \/ FileExists \/ RemoveFile \/ UserExists
  \/ BeginWait \/ PollStep

Spec == Init /\ [][Next]_vars

\* SpecDirectory: one call of the endpoint directory or of get_device, on
\* every host state
DirectoryNext == VerifySerial \/ GetDefaultSerial \/ GetDevice

SpecDirectory == Init /\ [][DirectoryNext]_vars

-----------------------------------------------------------------------------
(* is_boot_completed and wait_for_boot_to_complete, device.py:210-220 *)

ADB_BOOT_COMPLETED_TIMED_OUT_LIMIT_SECS == 30

\* str.strip(): leading and trailing whitespace removed
Whitespace == {" ", NL, TAB}

RECURSIVE LStrip(_)
LStrip(s) == IF s # <<>> /\ Head(s) \in Whitespace THEN LStrip(Tail(s)) ELSE s

RECURSIVE RStrip(_)
RStrip(s) ==
  IF s # <<>> /\ s[Len(s)] \in Whitespace THEN RStrip(SubSeq(s, 1, Len(s) - 1)) ELSE s

Strip(s) == RStrip(LStrip(s))

\* what 'getprop sys.boot_completed' may print
BootOutputs ==
  {<<"1", NL>>, <<" ", "1", NL>>, <<"0", NL>>, <<NL>>, <<>>, <<"1", "0", NL>>,
   <<"1", " ", "1", NL>>, <<"t", "r", "u", "e", NL>>}

BootResponses ==
  {Completed(EX_SUCCESS, out, <<>>) : out \in BootOutputs}
    \cup {Completed(EX_FAILURE, <<>>, <<"failed">>)}

\* is_boot_completed with the output compared unstripped
is_boot_completed_Unstripped(resp) ==
  LET c == ShellRun("getprop sys.boot_completed", {}, resp) IN
  IF c.result.raised THEN Fault(c, <<Log(c)>>)
  ELSE Done(c.result.info.stdout = <<"1">>, <<Log(c)>>)

\* device.py:210-213
is_boot_completed(resp) ==
  LET c == ShellRun("getprop sys.boot_completed", {}, resp) IN
  IF c.result.raised THEN Fault(c, <<Log(c)>>)
  ELSE Done(Strip(c.result.info.stdout) = <<"1">>, <<Log(c)>>)

MsgBootTimeout(serial) ==
  <<"Device with serial ">> \o serial \o <<" took too long to finish rebooting.">>

\* device.py:215-220, after the poll
wait_for_boot_to_complete(p, value) ==
  IF ~value THEN Throw("Exception", MsgBootTimeout(p.serial), p.calls)
  ELSE Done(None, p.calls)

IsBootCompleted ==
  /\ poll = Idle /\ device # None
  /\ \E r \in DeviceResponses(device, BootResponses) :
       last' = Ended("is_boot_completed", [read |-> r.stdout], device, is_boot_completed(r))
  /\ UNCHANGED <<device, poll>> /\ Host

\* device.py:216-218: the poll of wait_for_boot_to_complete starts
BeginBootWait ==
  /\ poll = Idle /\ device # None
  /\ poll' = PollBegin("wait_for_boot_to_complete", device,
                       Tenths(ADB_BOOT_COMPLETED_TIMED_OUT_LIMIT_SECS),
                       POLLING_INTERVAL_TENTHS, <<>>)
  /\ last' = Idle
  /\ UNCHANGED device /\ Host

\* one round of that poll: the predicate is is_boot_completed
BootPollStep ==
  /\ poll # Idle /\ poll.op = "wait_for_boot_to_complete"
  /\ \E r \in DeviceResponses(poll.serial, BootResponses) :
       LET read == is_boot_completed(r)
           verdict == IF read.raised THEN Raised(read.kind, read.info)
                      ELSE [raised |-> FALSE, kind |-> "return", info |-> read.value]
           round == PollRound(poll, verdict)
           ended == [round.p EXCEPT !.calls = read.calls]
           arg == [state |-> round.state, p |-> round.p, read |-> r.stdout] IN
       CASE round.state = "sleeping" -> poll' = round.p /\ last' = Idle
         [] round.state = "raised" ->
              /\ poll' = Idle
              /\ last' = Ended(poll.op, arg, poll.serial,
                               Throw(verdict.kind, verdict.info, ended.calls))
         [] OTHER ->
              /\ poll' = Idle
              /\ last' = Ended(poll.op, arg, poll.serial,
                               wait_for_boot_to_complete(ended, round.state = "true"))
  /\ UNCHANGED device /\ Host

\* SpecBoot: a bound device boots while the control thread reads the property
\* and waits on it
BootInit ==
  /\ raw = <<>>
  /\ parsed = Unparsed
  /\ adbPresent = TRUE
  /\ environ = None
  /\ attached \in Listings
  /\ device \in Serials
  /\ last = Idle
  /\ poll = Idle
  /\ invocation = NotInvoked
  /\ backends = <<>>
  /\ adbd = "user"

BootNext ==
  \/ Attach \/ Detach \/ ChangeStatus
  \/ IsBootCompleted \/ BeginBootWait \/ BootPollStep

SpecBoot == BootInit /\ [][BootNext]_vars

-----------------------------------------------------------------------------
(* simpleperf_event_exists, device.py:275-309, and 'simpleperf list' *)

MaxEventLines == 3
MaxEvents == 2

\* event names: two that simpleperf knows and a word of its headers
EvClock == <<"c", "k">>
EvFaults == <<"m", "f">>
EvList == <<"L", "i">>
EventNames == {EvClock, EvFaults, EvList}

\* the lines 'simpleperf list' may print: a header, events, an event followed
\* by a description, a comment
EventLinePool ==
  { <<"L", "i", ":">>,
    <<" ", " ">> \o EvClock,
    <<" ", " ">> \o EvFaults,
    <<" ", " ">> \o EvClock \o <<" ", "x">>,
    <<" ", " ", "#">> \o EvFaults }

EventListings ==
  {Concat([i \in 1..Len(ls) |-> ls[i] \o <<NL>>]) : ls \in SeqsUpTo(EventLinePool, MaxEventLines)}

\* the request lists a caller may pass
Requests == SeqsUpTo(EventNames, MaxEvents) \ {<<>>}

\* str.lower
Lower(text) == [i \in 1..Len(text) |-> IF text[i] = "L" THEN "l" ELSE text[i]]

Contains(line, pattern) ==
  \E i \in 1..(Len(line) - Len(pattern) + 1) : SubSeq(line, i, i + Len(pattern) - 1) = pattern

\* what the device answers to 'simpleperf list | grep -e e1 -e e2 ...',
\* device.py:277-279 and 285: the lines of the listing that hold one of the
\* lowered names; grep ends with 1 when it selects no line
SimpleperfList(listing, simpleperf_events) ==
  LET Selected(line) == \E i \in 1..Len(simpleperf_events) :
                          Contains(line, Lower(simpleperf_events[i]))
      lines == SelectSeq(Split(listing, NL), Selected) IN
  Completed(IF lines = <<>> THEN EX_FAILURE ELSE EX_SUCCESS,
            Concat([i \in 1..Len(lines) |-> lines[i] \o <<NL>>]), <<>>)

RECURSIVE Remove(_, _)
\* list.remove(x): the list without its first x
Remove(list, x) ==
  IF list = <<>> THEN <<>>
  ELSE IF Head(list) = x THEN Tail(list)
  ELSE <<Head(list)>> \o Remove(Tail(list), x)

\* device.py:294-296: a line holds no event when it is short, not indented by
\* two spaces, or a comment
HoldsNoEvent(line) ==
  Len(line) <= 3 \/ SubSeq(line, 1, 2) # <<" ", " ">> \/ line[3] = "#"

\* device.py:297
EventOf(line) == Split(SubSeq(line, 3, Len(line)), " ")[1]

RECURSIVE ScanEventLines(_, _, _)
\* the loop of device.py:293-302 over the locals events_copy and the number
\* of lines visited
ScanEventLines(lines, events_copy, scanned) ==
  IF lines = <<>> THEN [events_copy |-> events_copy, scanned |-> scanned]
  ELSE LET line == Head(lines) IN
       IF HoldsNoEvent(line) THEN ScanEventLines(Tail(lines), events_copy, scanned + 1)
       ELSE LET event == EventOf(line) IN
            IF event \in Range(events_copy)
            THEN LET removed == Remove(events_copy, event) IN
                 IF removed = <<>> THEN [events_copy |-> removed, scanned |-> scanned + 1]
                 ELSE ScanEventLines(Tail(lines), removed, scanned + 1)
            ELSE ScanEventLines(Tail(lines), events_copy, scanned + 1)

\* repr of a list of strings
PyRepr(list) ==
  <<"[">> \o Join([i \in 1..Len(list) |-> <<"'">> \o list[i] \o <<"'">>], <<", ">>) \o <<"]">>

MsgNoSimpleperf == <<"Simpleperf was not found in the device.">>
MsgPushSimpleperf == <<"Push the simpleperf binary to the device.">>
MsgInvalidEvents(events) ==
  <<"The following simpleperf event(s) are invalid: ">> \o PyRepr(events) \o <<".">>
MsgSeeValidEvents == <<"Run adb shell simpleperf list to see valid simpleperf events.">>

\* how a call of simpleperf_event_exists ends: out is its return or its
\* exception, simpleperf_events the caller's list after the call, scanned the
\* number of lines the loop visited
EventsChecked(out, simpleperf_events, scanned) ==
  [out |-> out, simpleperf_events |-> simpleperf_events, scanned |-> scanned]

\* a variant that scans the caller's list itself instead of a copy
simpleperf_event_exists_NoCopy(simpleperf_events, r1, r2) ==
  LET exists == file_exists(r1) IN
  IF exists.raised THEN EventsChecked(exists, simpleperf_events, 0)
  ELSE IF ~exists.value
  THEN EventsChecked(Done(ValidationError(MsgNoSimpleperf, MsgPushSimpleperf), exists.calls),
                     simpleperf_events, 0)
  ELSE LET c == ShellRun("simpleperf list | grep", {EX_FAILURE}, r2)
           calls == exists.calls \o <<Log(c)>> IN
       IF c.result.raised THEN EventsChecked(Fault(c, calls), simpleperf_events, 0)
       ELSE LET scan == ScanEventLines(Split(c.result.info.stdout, NL), simpleperf_events, 0) IN
            IF Len(scan.events_copy) > 0
            THEN EventsChecked(
                   Done(ValidationError(MsgInvalidEvents(scan.events_copy), MsgSeeValidEvents),
                        calls),
                   scan.events_copy, scan.scanned)
            ELSE EventsChecked(Done(None, calls), scan.events_copy, scan.scanned)

\* a variant that asks for the list without looking for the binary first
simpleperf_event_exists_NoFileCheck(simpleperf_events, r1, r2) ==
  LET events_copy == simpleperf_events
      c == ShellRun("simpleperf list | grep", {EX_FAILURE}, r2)
      calls == <<Log(c)>> IN
  IF c.result.raised THEN EventsChecked(Fault(c, calls), simpleperf_events, 0)
  ELSE LET scan == ScanEventLines(Split(c.result.info.stdout, NL), events_copy, 0) IN
       IF Len(scan.events_copy) > 0
       THEN EventsChecked(
              Done(ValidationError(MsgInvalidEvents(scan.events_copy), MsgSeeValidEvents),
                   calls),
              simpleperf_events, scan.scanned)
       ELSE EventsChecked(Done(None, calls), simpleperf_events, scan.scanned)

\* device.py:275-309; r1 answers the 'ls' of file_exists, r2 the list command
simpleperf_event_exists(simpleperf_events, r1, r2) ==
  LET events_copy == simpleperf_events
      exists == file_exists(r1) IN
  IF exists.raised THEN EventsChecked(exists, simpleperf_events, 0)
  ELSE IF ~exists.value
  THEN EventsChecked(Done(ValidationError(MsgNoSimpleperf, MsgPushSimpleperf), exists.calls),
                     simpleperf_events, 0)
  ELSE LET c == ShellRun("simpleperf list | grep", {EX_FAILURE}, r2)
           calls == exists.calls \o <<Log(c)>> IN
       IF c.result.raised THEN EventsChecked(Fault(c, calls), simpleperf_events, 0)
       ELSE LET scan == ScanEventLines(Split(c.result.info.stdout, NL), events_copy, 0) IN
            IF Len(scan.events_copy) > 0
            THEN EventsChecked(
                   Done(ValidationError(MsgInvalidEvents(scan.events_copy), MsgSeeValidEvents),
                        calls),
                   simpleperf_events, scan.scanned)
            ELSE EventsChecked(Done(None, calls), simpleperf_events, scan.scanned)

\* a caller passes a list of event names to simpleperf_event_exists; raw is
\* what 'simpleperf list' prints on the device, ls what the device answered
\* to the 'ls' of /system/bin/simpleperf
SimpleperfEventExists ==
  /\ \E events \in Requests :
       \E r1 \in DeviceResponses(device, Plain),
          r2 \in DeviceResponses(device, {SimpleperfList(raw, events)}) :
         LET checked == simpleperf_event_exists(events, r1, r2) IN
         last' = Ended("simpleperf_event_exists",
                       [events |-> events, after |-> checked.simpleperf_events,
                        scanned |-> checked.scanned, ls |-> r1],
                       device, checked.out)
  /\ UNCHANGED <<device, poll>> /\ Host

\* SpecSimpleperf: event names are checked on a bound device
SimpleperfInit ==
  /\ raw \in EventListings
  /\ parsed = Unparsed
  /\ adbPresent = TRUE
  /\ environ = None
  /\ attached \in {<<>>, <<[id |-> SerialA, status |-> StatusDevice]>>}
  /\ device = SerialA
  /\ last = Idle
  /\ poll = Idle
  /\ invocation = NotInvoked
  /\ backends = <<>>
  /\ adbd = "user"

SimpleperfNext == SimpleperfEventExists

SpecSimpleperf == SimpleperfInit /\ [][SimpleperfNext]_vars

-----------------------------------------------------------------------------
(* SpecUsers: get_all_users and user_exists over what 'pm list users' reports *)

MaxUsers == 2

\* the users a device may report, in its order: distinct ids
UserReports ==
  {ids \in SeqsUpTo({0, 10, 11}, MaxUsers) : \A i, j \in 1..Len(ids) : i # j => ids[i] # ids[j]}

\* the user ids a caller may ask for
AskedUsers == {0, 1, 10, 11}

\* what the device answers to 'pm list users': raw, or a failure of pm
PmResponses == {Completed(EX_SUCCESS, raw, <<>>), Completed(EX_FAILURE, <<>>, <<"failed">>)}

GetAllUsersOf ==
  /\ \E r \in DeviceResponses(device, PmResponses) :
       last' = Ended("get_all_users", [answer |-> r], device, get_all_users(r))
  /\ UNCHANGED <<device, poll>> /\ Host

UserExistsOf ==
  /\ \E user \in AskedUsers, r \in DeviceResponses(device, PmResponses) :
       last' = Ended("user_exists", [user |-> user, answer |-> r], device,
                     user_exists(user, device, r))
  /\ UNCHANGED <<device, poll>> /\ Host

UsersInit ==
  /\ raw \in {UsersText(ids) : ids \in UserReports}
  /\ parsed = Unparsed
  /\ adbPresent = TRUE
  /\ environ = None
  /\ attached \in {<<>>, <<[id |-> SerialA, status |-> StatusDevice]>>}
  /\ device = SerialA
  /\ last = Idle
  /\ poll = Idle
  /\ invocation = NotInvoked
  /\ backends = <<>>
  /\ adbd = "user"

UsersNext == GetAllUsersOf \/ UserExistsOf

SpecUsers == UsersInit /\ [][UsersNext]_vars

-----------------------------------------------------------------------------
(* SpecProcess: get_pid, is_process_running and kill_process over what
   'pidof' prints *)

\* what 'pidof name' prints: nothing when no process has the name, else the
\* pids on one line
PidOutputs ==
  {<<>>, PidText \o <<NL>>, <<"8", NL>>, <<"8", "2", " ", "4", "1", NL>>}

\* pidof ends with 1 when it finds no process
PidofAnswer(stdout) ==
  Completed(IF stdout = <<>> THEN EX_FAILURE ELSE EX_SUCCESS, stdout, <<>>)

GetPidOf ==
  /\ \E r \in DeviceResponses(device, {PidofAnswer(raw)}) :
       last' = Ended("get_pid", [pidof |-> r], device, get_pid(r))
  /\ UNCHANGED <<device, poll>> /\ Host

IsProcessRunningOf ==
  /\ \E r \in DeviceResponses(device, {PidofAnswer(raw)}) :
       last' = Ended("is_process_running", [pidof |-> r], device, is_process_running(r))
  /\ UNCHANGED <<device, poll>> /\ Host

KillProcessOf ==
  /\ \E r1 \in DeviceResponses(device, {PidofAnswer(raw)}), r2 \in DeviceResponses(device, Plain) :
       last' = Ended("kill_process", [pidof |-> r1], device, kill_process(r1, r2))
  /\ UNCHANGED <<device, poll>> /\ Host

ProcessInit ==
  /\ raw \in PidOutputs
  /\ parsed = Unparsed
  /\ adbPresent = TRUE
  /\ environ = None
  /\ attached \in Listings
  /\ device \in Serials
  /\ last = Idle
  /\ poll = Idle
  /\ invocation = NotInvoked
  /\ backends = <<>>
  /\ adbd = "user"

ProcessNext == GetPidOf \/ IsProcessRunningOf \/ KillProcessOf

SpecProcess == ProcessInit /\ [][ProcessNext]_vars

-----------------------------------------------------------------------------
(* SpecCommands: operations of one transport call each, over every way the
   command may end *)

TestPackage == <<"com.example.app">>

\* device.py:240-250
MsgServicePackage(package, serial) ==
  <<"Cannot start package ">> \o package \o <<" on device with serial ">> \o serial
  \o <<" because ">> \o package
  \o <<" is a service package, which doesn't implement a MAIN activity.">>

\* a variant of start_package that declares no exit code ignorable
start_package_Strict(package, serial, resp) ==
  LET c == ShellRun("am start", {}, resp) IN
  IF c.result.raised THEN Fault(c, <<Log(c)>>)
  ELSE IF Split(c.result.info.stderr, NL)[1] # <<>>
       THEN Done(ValidationError(MsgServicePackage(package, serial), None), <<Log(c)>>)
       ELSE Done(None, <<Log(c)>>)

\* device.py:240-250
start_package(package, serial, resp) ==
  LET c == ShellRun("am start", {EX_FAILURE}, resp) IN
  IF c.result.raised THEN Fault(c, <<Log(c)>>)
  ELSE IF Split(c.result.info.stderr, NL)[1] # <<>>
       THEN Done(ValidationError(MsgServicePackage(package, serial), None), <<Log(c)>>)
       ELSE Done(None, <<Log(c)>>)

\* a variant of create_directory that takes exit code 1 for an answer
create_directory_Lenient(resp) ==
  LET c == ShellRun("mkdir -p", {EX_FAILURE}, resp) IN
  IF c.result.raised THEN Fault(c, <<Log(c)>>) ELSE Done(None, <<Log(c)>>)

\* device.py:271-273
create_directory(resp) ==
  LET c == ShellRun("mkdir -p", {}, resp) IN
  IF c.result.raised THEN Fault(c, <<Log(c)>>) ELSE Done(None, <<Log(c)>>)

\* how a command on the device may end: its exit code (127: the shell did
\* not find the program) and what it wrote to its standard error
ExitCodes == {EX_SUCCESS, EX_FAILURE, EX_NOTFOUND}
StderrTexts == {<<>>, <<"Error: Activity not started", NL>>, <<"Warning", NL, "Error", NL>>}
CommandAnswers == {Completed(rc, <<>>, err) : rc \in ExitCodes, err \in StderrTexts}

\* each operation is called on the bound device; the answer of its one
\* command is kept with its outcome
StartPackageOf ==
  /\ \E r \in DeviceResponses(device, CommandAnswers) :
       last' = Ended("start_package", [answer |-> r], device, start_package(TestPackage, device, r))
  /\ UNCHANGED <<device, poll>> /\ Host

FileExistsOf ==
  /\ \E r \in DeviceResponses(device, CommandAnswers) :
       last' = Ended("file_exists", [answer |-> r], device, file_exists(r))
  /\ UNCHANGED <<device, poll>> /\ Host

RemoveFileOf ==
  /\ \E r \in DeviceResponses(device, CommandAnswers) :
       last' = Ended("remove_file", [answer |-> r], device, remove_file(r))
  /\ UNCHANGED <<device, poll>> /\ Host

PullFileOf ==
  /\ \E r \in DeviceResponses(device, CommandAnswers) :
       last' = Ended("pull_file", [answer |-> r], device, pull_file(r))
  /\ UNCHANGED <<device, poll>> /\ Host

CreateDirectoryOf ==
  /\ \E r \in DeviceResponses(device, CommandAnswers) :
       last' = Ended("create_directory", [answer |-> r], device, create_directory(r))
  /\ UNCHANGED <<device, poll>> /\ Host

CommandsInit ==
  /\ raw = <<>>
  /\ parsed = Unparsed
  /\ adbPresent = TRUE
  /\ environ = None
  /\ attached \in Listings
  /\ device \in Serials
  /\ last = Idle
  /\ poll = Idle
  /\ invocation = NotInvoked
  /\ backends = <<>>
  /\ adbd = "user"

CommandsNext ==
  \/ StartPackageOf \/ FileExistsOf \/ RemoveFileOf \/ PullFileOf \/ CreateDirectoryOf

SpecCommands == CommandsInit /\ [][CommandsNext]_vars

-----------------------------------------------------------------------------
(* SpecTrace: start_perfetto_trace and start_simpleperf_trace, device.py:139-156,
   and the processes they start *)

MaxBackends == 3

SIMPLEPERF_TRACE_FILE == <<"/tmp/simpleperf-traces/perf.data">>

\* shell.py:160-164: Popen starts the process and returns its handle at
\* once; the command is a list of arguments, or one line for the shell.
\* started tells whether the operating system could start it; handle is the
\* handle Popen makes then
popen(serial, args, is_list, started, handle) ==
  LET prefix == <<<<"adb">>, <<"-s">>, serial>>
      cmd == IF is_list THEN prefix \o args
             ELSE Join(prefix, <<" ">>) \o <<" ">> \o args IN
  IF ~started THEN [raised |-> TRUE, handle |-> 0, cmd |-> cmd, shell |-> ~is_list]
  ELSE [raised |-> FALSE, handle |-> handle, cmd |-> cmd, shell |-> ~is_list]

\* how a start ends, and the state of the process it started when it ends
Started(p, state) ==
  [out |-> IF p.raised THEN Throw("OSError", <<"Popen">>, <<>>) ELSE Done(p.handle, <<>>),
   popen |-> p, state |-> state]

\* a variant of start_perfetto_trace that waits for the process to end
start_perfetto_trace_Waits(serial, config, started, handle) ==
  Started(popen(serial,
                <<"shell perfetto -c - --txt -o ",
                  "/data/misc/perfetto-traces/trace.perfetto-trace", " ">> \o config,
                FALSE, started, handle),
          "ended")

\* device.py:139-142
start_perfetto_trace(serial, config, started, handle) ==
  Started(popen(serial,
                <<"shell perfetto -c - --txt -o ",
                  "/data/misc/perfetto-traces/trace.perfetto-trace", " ">> \o config,
                FALSE, started, handle),
          "running")

\* int(dur_ms / 1000), the whole seconds of the duration
CeilSecs_Floor(dur_ms) == dur_ms \div 1000

\* int(math.ceil(dur_ms / 1000))
CeilSecs(dur_ms) ==
  IF dur_ms % 1000 = 0 THEN dur_ms \div 1000 ELSE (dur_ms \div 1000) + 1

\* device.py:147-156: command.dur_ms is NotPassed for None
start_simpleperf_trace(serial, command, started, handle) ==
  LET events_param == <<"-e ">> \o Join(command.simpleperf_event, <<",">>)
      duration == IF command.dur_ms # NotPassed
                  THEN <<"--duration ">> \o Str(CeilSecs(command.dur_ms[1]))
                  ELSE <<>> IN
  Started(popen(serial,
                << <<"shell">>, <<"simpleperf">>, <<"record">>, <<"-a">>, <<"-f">>, <<"1000">>,
                   <<"--exclude-perf">>, <<"--post-unwind=yes">>, <<"-m">>, <<"8192">>,
                   <<"-g">>, duration, events_param, <<"-o">>, SIMPLEPERF_TRACE_FILE >>,
                TRUE, started, handle),
          "running")

\* the commands a caller may pass
PerfettoConfigTexts == {<<>>, <<"<<EOF", NL, "buffers: {}", NL, "EOF">>}
SimpleperfEvents == {<<"cpu-cycles">>, <<"instructions">>}
Durations == {NotPassed, <<1>>, <<3000>>, <<3001>>, <<3999>>, <<4000>>, <<10000>>}
SimpleperfCommands ==
  [simpleperf_event : SeqsUpTo(SimpleperfEvents, MaxEvents) \ {<<>>}, dur_ms : Durations]

\* the device's processes once the start s has been made
WithStarted(s) ==
  IF s.out.raised THEN backends
  ELSE Append(backends, [shell |-> s.popen.shell, state |-> s.state])

StartPerfettoTrace ==
  /\ Len(backends) < MaxBackends
  /\ \E config \in PerfettoConfigTexts, started \in BOOLEAN :
       LET s == start_perfetto_trace(device, config, started, Len(backends) + 1) IN
       /\ backends' = WithStarted(s)
       /\ last' = Ended("start_perfetto_trace", [popen |-> s.popen, command |-> config],
                        device, s.out)
  /\ UNCHANGED <<raw, parsed, adbPresent, environ, attached, device, poll, invocation, adbd>>

StartSimpleperfTrace ==
  /\ Len(backends) < MaxBackends
  /\ \E command \in SimpleperfCommands, started \in BOOLEAN :
       LET s == start_simpleperf_trace(device, command, started, Len(backends) + 1) IN
       /\ backends' = WithStarted(s)
       /\ last' = Ended("start_simpleperf_trace", [popen |-> s.popen, command |-> command],
                        device, s.out)
  /\ UNCHANGED <<raw, parsed, adbPresent, environ, attached, device, poll, invocation, adbd>>

\* a process ends by itself: its duration is over
BackendEnds ==
  /\ \E i \in 1..Len(backends) :
       /\ backends[i].state = "running"
       /\ backends' = [backends EXCEPT ![i].state = "ended"]
  /\ UNCHANGED <<raw, parsed, adbPresent, environ, attached, device, last, poll, invocation,
               adbd>>

\* the caller terminates the process whose handle the last start returned
TerminateBackend ==
  /\ last.op \in {"start_perfetto_trace", "start_simpleperf_trace"} /\ ~last.out.raised
  /\ backends[last.out.value].state = "running"
  /\ backends' = [backends EXCEPT ![last.out.value].state = "terminated"]
  /\ UNCHANGED <<raw, parsed, adbPresent, environ, attached, device, last, poll, invocation,
               adbd>>

TraceInit ==
  /\ raw = <<>>
  /\ parsed = Unparsed
  /\ adbPresent = TRUE
  /\ environ = None
  /\ attached = <<[id |-> SerialA, status |-> StatusDevice]>>
  /\ device = SerialA
  /\ last = Idle
  /\ poll = Idle
  /\ invocation = NotInvoked
  /\ backends = <<>>
  /\ adbd = "user"

TraceNext == StartPerfettoTrace \/ StartSimpleperfTrace \/ BackendEnds \/ TerminateBackend

SpecTrace == TraceInit /\ [][TraceNext]_vars

-----------------------------------------------------------------------------
(* SpecEventLines: the loop of simpleperf_event_exists over one line *)

MaxLineLen == 5

\* one line of the output of 'simpleperf list', by its characters
EventLineChars == {" ", "#", "a", "b"}
EventLines == SeqsUpTo(EventLineChars, MaxLineLen)

\* the names a caller may ask for
ShortNames == SeqsUpTo({"a", "b", "#"}, 2) \ {<<>>}

\* the loop of device.py:293-302 meets the line raw while name is the one
\* event still looked for
ScanOneLine ==
  /\ parsed = Unparsed
  /\ \E name \in ShortNames :
       LET scan == ScanEventLines(<<raw>>, <<name>>, 0) IN
       parsed' = [raised |-> FALSE, kind |-> "scanned",
                  info |-> [name |-> name, found |-> scan.events_copy = <<>>]]
  /\ UNCHANGED <<raw, adbPresent, environ, attached, device, last, poll, invocation,
                 backends, adbd>>

EventLinesInit ==
  /\ raw \in EventLines
  /\ parsed = Unparsed
  /\ adbPresent = TRUE
  /\ environ = None
  /\ attached = <<>>
  /\ device = None
  /\ last = Idle
  /\ poll = Idle
  /\ invocation = NotInvoked
  /\ backends = <<>>
  /\ adbd = "user"

EventLinesNext == ScanOneLine

SpecEventLines == EventLinesInit /\ [][EventLinesNext]_vars

-----------------------------------------------------------------------------
(* SpecRoot: root_device, device.py:119-125, while the adb daemon of the
   device restarts *)

\* the one device of SpecRoot, as adb lists it while its daemon is up
ListedAlone == <<[id |-> SerialA, status |-> StatusDevice]>>

\* root_device up to its wait, device.py:120: 'adb root' makes a daemon that
\* runs as user restart as root; the daemon drops off later, by itself
RootDevice ==
  /\ poll = Idle /\ last = Idle /\ device # None
  /\ \E r \in DeviceResponses(device, Plain) :
       LET c == ShellRun("root", {}, r) IN
       IF c.result.raised
       THEN /\ last' = Ended("root_device", NotPolled, device, Fault(c, <<Log(c)>>))
            /\ UNCHANGED <<poll, adbd>>
       ELSE /\ poll' = PollBegin("root_device", device, Tenths(ADB_ROOT_TIMED_OUT_LIMIT_SECS),
                                 POLLING_INTERVAL_TENTHS, <<Log(c)>>)
            /\ last' = Idle
            /\ adbd' = IF adbd = "user" THEN "restarting" ELSE adbd
  /\ UNCHANGED <<raw, parsed, adbPresent, environ, attached, device, invocation, backends>>

\* the daemon drops off for the change of privilege: adb lists the device no
\* more
AdbdDrops ==
  /\ adbd = "restarting"
  /\ adbd' = "down"
  /\ attached' = <<>>
  /\ UNCHANGED <<raw, parsed, adbPresent, environ, device, last, poll, invocation, backends>>

\* the daemon is back, as root: the device connects under the new session
AdbdReturns ==
  /\ adbd = "down"
  /\ adbd' = "root"
  /\ attached' = ListedAlone
  /\ UNCHANGED <<raw, parsed, adbPresent, environ, device, last, poll, invocation, backends>>

RootInit ==
  /\ raw = <<>>
  /\ parsed = Unparsed
  /\ adbPresent = TRUE
  /\ environ = None
  /\ attached = ListedAlone
  /\ device = SerialA
  /\ last = Idle
  /\ poll = Idle
  /\ invocation = NotInvoked
  /\ backends = <<>>
  /\ adbd \in {"user", "root"}

RootNext == RootDevice \/ AdbdDrops \/ AdbdReturns \/ PollStep

SpecRoot == RootInit /\ [][RootNext]_vars

-----------------------------------------------------------------------------
(* SpecKill: kill_process, device.py:252-255, while the process may exit *)

ProcessRuns == \E i \in 1..Len(backends) : backends[i].state = "running"

\* what the device answers to 'pidof' and to 'kill -9 pid' as the process is
\* now
PidofNow == PidofAnswer(IF ProcessRuns THEN PidText \o <<NL>> ELSE <<>>)
KillNow ==
  IF ProcessRuns THEN Completed(EX_SUCCESS, <<>>, <<>>)
  ELSE Completed(EX_FAILURE, <<>>, <<"kill: No such process">>)

\* kill_process up to the end of its lookup, device.py:253-254: without a pid
\* it is over
KillLookup ==
  /\ poll = Idle
  /\ \E r1 \in DeviceResponses(device, {PidofNow}) :
       LET pid == get_pid(r1) IN
       IF pid.raised \/ pid.value = <<>>
       THEN /\ last' = Ended("kill_process", [pidof |-> r1, exited |-> FALSE], device,
                             kill_process(r1, r1))
            /\ poll' = poll
       ELSE /\ poll' = [op |-> "kill_process", serial |-> device, pidof |-> r1]
            /\ last' = Idle
  /\ UNCHANGED <<raw, parsed, adbPresent, environ, attached, device, invocation, backends,
                 adbd>>

\* the kill command of device.py:255, for the pid looked up
KillSend ==
  /\ poll # Idle /\ poll.op = "kill_process"
  /\ \E r2 \in DeviceResponses(device, {KillNow}) :
       /\ last' = Ended("kill_process", [pidof |-> poll.pidof, exited |-> ~ProcessRuns],
                        device, kill_process(poll.pidof, r2))
       /\ backends' = IF ~r2.oserror /\ r2.returncode = EX_SUCCESS /\ Reachable(device)
                      THEN [i \in 1..Len(backends) |->
                              [backends[i] EXCEPT !.state = IF @ = "running" THEN "terminated"
                                                            ELSE @]]
                      ELSE backends
  /\ poll' = Idle
  /\ UNCHANGED <<raw, parsed, adbPresent, environ, attached, device, invocation, adbd>>

KillInit ==
  /\ raw = <<>>
  /\ parsed = Unparsed
  /\ adbPresent = TRUE
  /\ environ = None
  /\ attached \in Listings
  /\ device \in Serials
  /\ last = Idle
  /\ poll = Idle
  /\ invocation = NotInvoked
  /\ backends \in {<<[shell |-> FALSE, state |-> s]>> : s \in {"running", "ended"}}
  /\ adbd = "user"

KillNext == KillLookup \/ BackendEnds \/ KillSend

SpecKill == KillInit /\ [][KillNext]_vars

-----------------------------------------------------------------------------
(* torq.py: the arguments of one invocation and their validation *)

DEFAULT_DUR_MS == 10000
MIN_DURATION_MS == 3000
DEFAULT_OUT_DIR == "."

\* the keys of PREDEFINED_PERFETTO_CONFIGS (config.py)
PerfettoConfigKeys == <<"default", "lightweight", "memory">>
PREDEFINED_PERFETTO_CONFIGS == Range(PerfettoConfigKeys)

\* the host's file system: os.path.isdir, os.path.isfile
Directories == {".", "./out"}
Files == {"config.pbtx"}

\* the ftrace events that may be named, in the order sorted() gives them
FtraceEvents == <<"power", "sched">>

\* a variant of Duplicated that finds no list to repeat an element
Duplicated_Never(list) == FALSE

\* len(list) != len(set(list))
Duplicated(list) == Len(list) # Cardinality(Range(list))

\* sorted(set(excluded) & set(included))
SortedIntersection(excluded, included) ==
  SelectSeq(FtraceEvents, LAMBDA e : e \in Range(excluded) /\ e \in Range(included))

\* the pair (args, error) the verifiers return
Verified(args) == [args |-> args, error |-> None]
Rejected(message, suggestion) ==
  [args |-> None, error |-> ValidationError(message, suggestion)]

\* an error returned after args was assigned to: args is one object, which
\* the verifier changes in place, so its caller finds it as object
RejectedAfter(object, message, suggestion) ==
  [args |-> None, error |-> ValidationError(message, suggestion), object |-> object]

\* the args object of the caller after a verifier returned result: the object
\* returned on success, the object as the verifier left it on an error
ObjectAfter(args, result) ==
  IF "object" \in DOMAIN result THEN result.object
  ELSE IF result.error = None THEN result.args
  ELSE args

\* a variant of UiDefault that opens the UI whatever the number of runs
UiDefault_Always(args) == TRUE

\* args.ui when --ui and --no-ui were both left out, torq.py:283
UiDefault(args) == args.runs = 1

\* the text of a number in a message: "%d" % n and "%s" % n
Num(n) == Str(n)

\* the end of verify_profiler_args, torq.py:232-292: the checks of the ftrace
\* events, the defaults filled in and the simpleperf arguments;
\* simpleperf_ok is what verify_simpleperf_args (validate_simpleperf.py)
\* finds
verify_ftrace_and_defaults(args, simpleperf_ok) ==
  IF Passed(args.excluded_ftrace_events) /\ args.profiler # "perfetto"
  THEN Rejected(<<"Command is invalid because --excluded-ftrace-events cannot be passed",
                  " if --profiler is not set to perfetto.">>,
                <<"Set --profiler perfetto to exclude an ftrace event from perfetto config.">>)
  ELSE IF Passed(args.excluded_ftrace_events) /\ Duplicated(args.excluded_ftrace_events)
  THEN Rejected(<<"Command is invalid because duplicate ftrace events cannot be",
                  " included in --excluded-ftrace-events.">>,
                <<"--excluded-ftrace-events should only include one instance of an ftrace event.">>)
  ELSE IF Passed(args.included_ftrace_events) /\ args.profiler # "perfetto"
  THEN Rejected(<<"Command is invalid because --included-ftrace-events cannot be passed",
                  " if --profiler is not set to perfetto.">>,
                <<"Set --profiler perfetto to include an ftrace event in perfetto config.">>)
  ELSE IF Passed(args.included_ftrace_events) /\ Duplicated(args.included_ftrace_events)
  THEN Rejected(<<"Command is invalid because duplicate ftrace events cannot be",
                  " included in --included-ftrace-events.">>,
                <<"--included-ftrace-events should only include one instance of an ftrace event.">>)
  ELSE IF /\ Passed(args.included_ftrace_events) /\ Passed(args.excluded_ftrace_events)
          /\ SortedIntersection(args.excluded_ftrace_events, args.included_ftrace_events) # <<>>
  THEN LET both == SortedIntersection(args.excluded_ftrace_events,
                                      args.included_ftrace_events) IN
       Rejected(<<"Command is invalid because ftrace event(s): ">>
                  \o Join([i \in 1..Len(both) |-> <<both[i]>>], <<", ">>)
                  \o <<" cannot be both included and excluded.">>,
                Join([i \in 1..Len(both) |->
                        <<"Only set --excluded-ftrace-events ", both[i],
                          " if you want to exclude ", both[i], " from the config or",
                          " --included-ftrace-events ", both[i],
                          " if you want to include ", both[i], " in the config.">>],
                     <<"\n\t ">>))
  ELSE LET with_event == IF args.profiler = "simpleperf" /\ ~Passed(args.simpleperf_event)
                         THEN [args EXCEPT !.simpleperf_event = <<"cpu-cycles">>]
                         ELSE args
           with_ui == IF ~Passed(with_event.ui)
                      THEN [with_event EXCEPT !.ui = <<UiDefault(with_event)>>]
                      ELSE with_event IN
       IF with_ui.profiler = "simpleperf"
       THEN IF simpleperf_ok THEN Verified(with_ui)
            ELSE RejectedAfter(with_ui, <<"simpleperf scripts were not found.">>, None)
       ELSE Verified([with_ui EXCEPT !.scripts_path = NotPassed])

\* torq.py:118-292
verify_profiler_args(args, simpleperf_ok) ==
  IF args.out_dir # DEFAULT_OUT_DIR /\ args.out_dir \notin Directories
  THEN Rejected(<<"Command is invalid because --out-dir is not a valid directory path: ",
                  args.out_dir, ".">>, None)
  ELSE IF Passed(args.dur_ms) /\ args.dur_ms[1] < MIN_DURATION_MS
  THEN Rejected(<<"Command is invalid because --dur-ms cannot be set to a value smaller",
                  " than ">> \o Num(MIN_DURATION_MS) \o <<".">>,
                <<"Set --dur-ms ">> \o Num(MIN_DURATION_MS) \o <<" to capture a trace for ">>
                  \o Num(MIN_DURATION_MS \div 1000) \o <<" seconds.">>)
  ELSE IF Passed(args.from_user) /\ args.event # "user-switch"
  THEN Rejected(<<"Command is invalid because --from-user is passed, but --event is not",
                  " set to user-switch.">>,
                <<"Set --event user-switch --from-user ">> \o Num(args.from_user[1])
                  \o <<" to perform a user-switch from user ">> \o Num(args.from_user[1])
                  \o <<".">>)
  ELSE IF Passed(args.to_user) /\ args.event # "user-switch"
  THEN Rejected(<<"Command is invalid because --to-user is passed, but --event is not set",
                  " to user-switch.">>,
                <<"Set --event user-switch --to-user ">> \o Num(args.to_user[1])
                  \o <<" to perform a user-switch to user ">> \o Num(args.to_user[1])
                  \o <<".">>)
  ELSE IF args.event = "user-switch" /\ ~Passed(args.to_user)
  THEN Rejected(<<"Command is invalid because --to-user is not passed.">>,
                <<"Set --event ", args.event, " --to-user <user-id> to perform a ",
                  args.event, ".">>)
  ELSE IF args.event = "boot" /\ args.profiler = "simpleperf"
  THEN Rejected(<<"Boot event is not yet implemented for simpleperf.">>,
                <<"Please try another event.">>)
  ELSE IF Passed(args.app) /\ args.event # "app-startup"
  THEN Rejected(<<"Command is invalid because --app is passed and --event is not set",
                  " to app-startup.">>,
                <<"To profile an app startup run:",
                  " torq --event app-startup --app <package-name>">>)
  ELSE IF args.event = "app-startup" /\ ~Passed(args.app)
  THEN Rejected(<<"Command is invalid because --app is not passed.">>,
                <<"Set --event ", args.event, " --app <package> to perform an ",
                  args.event, ".">>)
  ELSE IF args.runs < 1
  THEN Rejected(<<"Command is invalid because --runs cannot be set to a value smaller",
                  " than 1.">>, None)
  ELSE IF args.runs > 1 /\ Passed(args.ui) /\ args.ui[1]
  THEN Rejected(<<"Command is invalid because --ui cannot be passed if --runs is set to a",
                  " value greater than 1.">>,
                <<"Set torq -r ">> \o Num(args.runs) \o <<" --no-ui to perform ">>
                  \o Num(args.runs) \o <<" runs.">>)
  ELSE IF Passed(args.simpleperf_event) /\ args.profiler # "simpleperf"
  THEN Rejected(<<"Command is invalid because --simpleperf-event cannot be passed",
                  " if --profiler is not set to simpleperf.">>,
                <<"To capture the simpleperf event run:",
                  " torq --profiler simpleperf --simpleperf-event ">>
                  \o Join([i \in 1..Len(args.simpleperf_event) |-> <<args.simpleperf_event[i]>>],
                          <<" --simpleperf-event ">>))
  ELSE IF Passed(args.simpleperf_event) /\ Duplicated(args.simpleperf_event)
  THEN Rejected(<<"Command is invalid because redundant calls to --simpleperf-event",
                  " cannot be made.">>,
                <<"Only set --simpleperf-event cpu-cycles once if you want",
                  " to collect cpu-cycles.">>)
  ELSE IF args.perfetto_config # "default" /\ args.profiler # "perfetto"
  THEN Rejected(<<"Command is invalid because --perfetto-config cannot be passed",
                  " if --profiler is not set to perfetto.">>,
                <<"Set --profiler perfetto to choose a perfetto-config to use.">>)
  ELSE IF /\ args.perfetto_config \notin PREDEFINED_PERFETTO_CONFIGS
          /\ args.perfetto_config \notin Files
  THEN Rejected(<<"Command is invalid because --perfetto-config is not a valid",
                  " file path: ", args.perfetto_config>>,
                <<"Predefined perfetto configs can be used:\n\t torq --perfetto-config ">>
                  \o Join([i \in 1..Len(PerfettoConfigKeys) |-> <<PerfettoConfigKeys[i]>>],
                          <<"\n\t torq --perfetto-config ">>)
                  \o <<"\n\t A filepath with a config can also be used:",
                       "\n\t torq --perfetto-config <config-filepath>">>)
  ELSE IF args.between_dur_ms < MIN_DURATION_MS
  THEN Rejected(<<"Command is invalid because --between-dur-ms cannot be set to a",
                  " smaller value than ">> \o Num(MIN_DURATION_MS) \o <<".">>,
                <<"Set --between-dur-ms ">> \o Num(MIN_DURATION_MS) \o <<" to wait ">>
                  \o Num(MIN_DURATION_MS \div 1000) \o <<" seconds between each run.">>)
  ELSE IF args.between_dur_ms # DEFAULT_DUR_MS /\ args.runs = 1
  THEN Rejected(<<"Command is invalid because --between-dur-ms cannot be passed",
                  " if --runs is not a value greater than 1.">>,
                <<"Set --runs 2 to run 2 tests.">>)
  ELSE verify_ftrace_and_defaults(args, simpleperf_ok)

\* torq.py:294-305; argparse admits no other subcommand. The verifiers of
\* config and open (config.py, open.py) accept or reject: verifier_ok
verify_args(args, verifier_ok) ==
  CASE args.subcommands = "profiler" -> verify_profiler_args(args, verifier_ok)
    [] args.subcommands \in {"config", "open"} ->
         IF verifier_ok THEN Verified(args)
         ELSE Rejected(<<"Command is invalid.">>, None)
    [] args.subcommands = "vm" -> Verified(args)

\* get_command with the number of runs not handed to the command
get_command_SingleRun(args) ==
  IF args.subcommands = "profiler"
  THEN [type |-> "profiler", runs |-> 1, dur_ms |-> args.dur_ms,
        between_dur_ms |-> args.between_dur_ms, trigger_mode |-> "none"]
  ELSE [type |-> args.subcommands, runs |-> 1, dur_ms |-> NotPassed,
        between_dur_ms |-> DEFAULT_DUR_MS, trigger_mode |-> "none"]

\* torq.py:307-327: the command is known by its kind and, for the profiler,
\* by its number of runs, its duration and the delay between its runs; this
\* command line has no trigger arguments
get_command(args) ==
  IF args.subcommands = "profiler"
  THEN [type |-> "profiler", runs |-> args.runs, dur_ms |-> args.dur_ms,
        between_dur_ms |-> args.between_dur_ms, trigger_mode |-> "none"]
  ELSE [type |-> args.subcommands, runs |-> 1, dur_ms |-> NotPassed,
        between_dur_ms |-> DEFAULT_DUR_MS, trigger_mode |-> "none"]

\* torq.py:330-333: the lines printed
print_error(error) ==
  IF Suggestion(error) # None
  THEN <<Message(error), <<"Suggestion:\n\t ">> \o Suggestion(error)>>
  ELSE <<Message(error)>>

\* no AdbDevice object has been constructed, no command built
NoDevice == <<>>
NoCommand ==
  [type |-> "none", runs |-> 0, dur_ms |-> NotPassed, between_dur_ms |-> DEFAULT_DUR_MS,
   trigger_mode |-> "none"]

\* the device as an invocation finds it: no tracing backend running, no
\* snapshot cloned
NoBackend == [running |-> FALSE, clones |-> 0]

\* run, torq.py:336-345, up to the call of command.execute: the invocation
\* has returned, or holds the command and the device object it will execute
\* it on
run_DeviceFirst(args, verifier_ok) ==
  LET v == verify_args(args, verifier_ok)
      serial == IF args.serial # <<>> THEN args.serial[1] ELSE None IN
  IF v.error # None
  THEN [pc |-> "returned", stage |-> "verify_args", args |-> args, error |-> v.error,
        printed |-> print_error(v.error), device |-> <<serial>>,
        command |-> NoCommand, runs_done |-> 0, effects |-> <<>>, backend |-> NoBackend,
        nth |-> 1]
  ELSE [pc |-> "execute", stage |-> "RESOLVE_ENDPOINT", args |-> args, error |-> None,
        printed |-> <<>>, device |-> <<serial>>,
        command |-> get_command(v.args), runs_done |-> 0, effects |-> <<>>,
        backend |-> NoBackend, nth |-> 1]

run(args, verifier_ok) ==
  LET v == verify_args(args, verifier_ok)
      serial == IF args.serial # <<>> THEN args.serial[1] ELSE None IN
  IF v.error # None
  THEN [pc |-> "returned", stage |-> "verify_args", args |-> args, error |-> v.error,
        printed |-> print_error(v.error), device |-> NoDevice,
        command |-> NoCommand, runs_done |-> 0, effects |-> <<>>, backend |-> NoBackend,
        nth |-> 1]
  ELSE [pc |-> "execute", stage |-> "RESOLVE_ENDPOINT", args |-> args, error |-> None,
        printed |-> <<>>, device |-> <<serial>>,
        command |-> get_command(v.args), runs_done |-> 0, effects |-> <<>>,
        backend |-> NoBackend, nth |-> 1]

-----------------------------------------------------------------------------
(* command.execute(device): the session orchestrator *)

\* the errors the orchestrator's validations may return
MsgUnresolved == <<"There are currently no devices connected.">>
MsgPrecondition == <<"User ID does not exist on device.">>
SuggestUsers == <<"Select from one of the following user IDs on device: 0, 10">>

\* the command lines torq may be invoked with: the default invocation changed
\* in at most two of its arguments
BaseArgs ==
  [subcommands |-> "profiler", serial |-> <<>>, event |-> "custom", profiler |-> "perfetto",
   out_dir |-> DEFAULT_OUT_DIR, dur_ms |-> NotPassed, app |-> NotPassed, runs |-> 1,
   simpleperf_event |-> NotPassed, perfetto_config |-> "default",
   between_dur_ms |-> DEFAULT_DUR_MS, ui |-> NotPassed,
   excluded_ftrace_events |-> NotPassed, included_ftrace_events |-> NotPassed,
   from_user |-> NotPassed, to_user |-> NotPassed, scripts_path |-> NotPassed]

ArgValues ==
  [subcommands |-> {"profiler", "config", "open", "vm"},
   serial |-> {<<>>, <<SerialA>>},
   event |-> {"boot", "user-switch", "app-startup", "custom"},
   profiler |-> {"perfetto", "simpleperf"},
   out_dir |-> {DEFAULT_OUT_DIR, "./out", "./missing"},
   dur_ms |-> {NotPassed, <<MIN_DURATION_MS - 1>>, <<MIN_DURATION_MS>>},
   app |-> {NotPassed, <<"com.android.settings">>},
   runs |-> {0, 1, 2},
   simpleperf_event |-> {NotPassed, <<"cpu-cycles">>, <<"cpu-cycles", "cpu-cycles">>},
   perfetto_config |-> {"default", "lightweight", "config.pbtx", "missing.pbtx"},
   between_dur_ms |-> {MIN_DURATION_MS - 1, MIN_DURATION_MS, DEFAULT_DUR_MS},
   ui |-> {NotPassed, <<TRUE>>, <<FALSE>>},
   excluded_ftrace_events |-> {NotPassed, <<"sched">>, <<"sched", "sched">>},
   included_ftrace_events |-> {NotPassed, <<"sched">>, <<"power">>, <<"power", "power">>},
   from_user |-> {NotPassed, <<10>>},
   to_user |-> {NotPassed, <<11>>},
   scripts_path |-> {NotPassed}]

ArgChoices == UNION {{<<f, v>> : v \in ArgValues[f]} : f \in DOMAIN ArgValues}

ArgsPool ==
  {[[BaseArgs EXCEPT ![c[1]] = c[2]] EXCEPT ![d[1]] = d[2]] : c \in ArgChoices, d \in ArgChoices}

\* a call of verify_profiler_args: the args given, what verify_simpleperf_args
\* finds, the pair returned and the args object after the call
Verification(args, simpleperf_ok) ==
  LET result == verify_profiler_args(args, simpleperf_ok) IN
  [op |-> "verify_profiler_args", given |-> args, simpleperf_ok |-> simpleperf_ok,
   args |-> result.args, error |-> result.error, object |-> ObjectAfter(args, result)]

\* the command lines the verifier is tried on: the default invocation changed
\* in at most three of its arguments
VerifierPool ==
  {[a EXCEPT ![c[1]] = c[2]] : a \in ArgsPool, c \in ArgChoices}

\* verify_profiler_args is called once
VerifyProfilerArgs ==
  /\ last = Idle
  /\ \E args \in VerifierPool, simpleperf_ok \in BOOLEAN :
       last' = Verification(args, simpleperf_ok)
  /\ UNCHANGED <<raw, parsed, adbPresent, environ, attached, device, poll, invocation,
                 backends, adbd>>

ArgsInit ==
  /\ raw = <<>>
  /\ parsed = Unparsed
  /\ adbPresent = TRUE
  /\ environ = None
  /\ attached = <<>>
  /\ device = None
  /\ last = Idle
  /\ poll = Idle
  /\ invocation = NotInvoked
  /\ backends = <<>>
  /\ adbd = "user"

ArgsNext == VerifyProfilerArgs

SpecArgs == ArgsInit /\ [][ArgsNext]_vars

\* the invocation alone moves
Elsewhere ==
  UNCHANGED <<raw, parsed, adbPresent, environ, attached, device, last, poll, backends, adbd>>

\* torq is invoked: run up to command.execute
Invoke ==
  /\ invocation = NotInvoked
  /\ \E args \in ArgsPool, verifier_ok \in BOOLEAN : invocation' = run(args, verifier_ok)
  /\ Elsewhere

\* a variant of Executing in which a session goes on after a fatal fault
Executing_AfterFault(stage) ==
  invocation.pc \in {"execute", "raised"} /\ invocation.stage = stage

\* the session is in this state of its current run
Executing(stage) == invocation.pc = "execute" /\ invocation.stage = stage

\* execute returns error to run
ExecuteReturns(error) == [invocation EXCEPT !.pc = "executed", !.error = error]

\* RESOLVE_ENDPOINT: the endpoint resolves, or the session is aborted with
\* the resolution error
ResolveEndpoint ==
  /\ Executing("RESOLVE_ENDPOINT")
  /\ \/ invocation' = [invocation EXCEPT !.stage = "VALIDATE_PRECONDITIONS"]
     \/ invocation' = ExecuteReturns(ValidationError(MsgUnresolved, None))
  /\ Elsewhere

\* VALIDATE_PRECONDITIONS: the event's checks pass, or the session is aborted
\* with their error; only the profiler command goes on to trace
ValidatePreconditions ==
  /\ Executing("VALIDATE_PRECONDITIONS")
  /\ \/ invocation' = IF invocation.command.type = "profiler"
                      THEN [invocation EXCEPT !.stage = "ARM_BACKEND"]
                      ELSE ExecuteReturns(None)
     \/ invocation' = ExecuteReturns(ValidationError(MsgPrecondition, SuggestUsers))
  /\ Elsewhere

\* the fixed path of the trace on the device (profiler.py)
PERFETTO_TRACE_FILE == "/data/misc/perfetto-traces/trace"

\* what the sessions did to the device, in order; nth numbers the invocations
\* made against the device
Effect(what, run_number, ms, path) ==
  [what |-> what, run |-> run_number, ms |-> ms, path |-> path, nth |-> invocation.nth]

CurrentRun == invocation.runs_done + 1

\* ARM_BACKEND: the asynchronous start of the trace
ArmBackend ==
  /\ Executing("ARM_BACKEND")
  /\ invocation' = [invocation EXCEPT
                      !.stage = "AWAIT_TRIGGER",
                      !.backend.running = TRUE,
                      !.effects = Append(@, Effect("start_trace", CurrentRun, 0, <<>>))]
  /\ Elsewhere

\* AWAIT_TRIGGER: the duration is waited (DEFAULT_DUR_MS when --dur-ms was not
\* passed), or, in a trigger session, the trigger is sent; a stop trigger
\* ends the trace, a clone trigger snapshots it
AwaitTrigger ==
  /\ Executing("AWAIT_TRIGGER")
  /\ LET mode == invocation.command.trigger_mode
         dur == IF Passed(invocation.command.dur_ms) THEN invocation.command.dur_ms[1]
                ELSE DEFAULT_DUR_MS IN
     invocation' = [invocation EXCEPT
                      !.stage = "STOP_AND_COLLECT",
                      !.backend.running = IF mode = "stop" THEN FALSE ELSE @,
                      !.effects = Append(@, IF mode = "none"
                                            THEN Effect("wait", CurrentRun, dur, <<>>)
                                            ELSE Effect("trigger", CurrentRun, 0, <<mode>>))]
  /\ Elsewhere

\* a variant of Artifact that never numbers the path
Artifact_Unsuffixed == <<PERFETTO_TRACE_FILE>>

\* the artifact of this run: the fixed path, numbered in a clone session
Artifact ==
  IF invocation.command.trigger_mode = "clone"
  THEN <<PERFETTO_TRACE_FILE, ".">> \o Str(invocation.backend.clones)
  ELSE <<PERFETTO_TRACE_FILE>>

\* STOP_AND_COLLECT: the backend is halted if it still runs (a clone session
\* leaves it running), the artifact is pulled and its copy on the device
\* removed; then the next run, or done
StopAndCollect ==
  /\ Executing("STOP_AND_COLLECT")
  /\ LET clone == invocation.command.trigger_mode = "clone"
         halt == IF invocation.backend.running /\ ~clone
                 THEN <<Effect("terminate", CurrentRun, 0, <<>>)>> ELSE <<>>
         collected ==
           [invocation EXCEPT
              !.runs_done = @ + 1,
              !.backend.running = IF clone THEN @ ELSE FALSE,
              !.backend.clones = IF clone THEN @ + 1 ELSE @,
              !.effects = @ \o halt \o <<Effect("pull_file", CurrentRun, 0, Artifact),
                                         Effect("remove_file", CurrentRun, 0, Artifact)>>] IN
     invocation' = IF collected.runs_done < collected.command.runs
                   THEN [collected EXCEPT !.stage = "INTER_RUN_DELAY"]
                   ELSE [collected EXCEPT !.pc = "executed"]
  /\ Elsewhere

\* between two runs the inter-run delay is waited
InterRunDelay ==
  /\ Executing("INTER_RUN_DELAY")
  /\ invocation' = [invocation EXCEPT
                      !.stage = "ARM_BACKEND",
                      !.effects = Append(@, Effect("delay", CurrentRun,
                                                   invocation.command.between_dur_ms, <<>>))]
  /\ Elsewhere

\* a fatal fault at any state unwinds the session and leaves run uncaught
FatalFault ==
  /\ invocation.pc = "execute"
  /\ invocation' = [invocation EXCEPT !.pc = "raised"]
  /\ Elsewhere

\* torq.py:346-349
RunEnds ==
  /\ invocation.pc = "executed"
  /\ invocation' = [invocation EXCEPT
                      !.pc = "returned",
                      !.printed = IF invocation.error # None
                                  THEN print_error(invocation.error) ELSE <<>>]
  /\ Elsewhere

\* SpecTrigger: trigger sessions invoked one after another against one device
MaxInvocations == 3

TriggerModes == {"start", "stop", "clone"}

\* the command of 'torq --trigger-names ... --trigger-mode mode'
trigger_command(mode) ==
  [type |-> "profiler", runs |-> 1, dur_ms |-> NotPassed, between_dur_ms |-> DEFAULT_DUR_MS,
   trigger_mode |-> mode]

\* torq is invoked for a trigger session; the device is as the invocations
\* before left it
InvokeTrigger ==
  /\ \/ invocation = NotInvoked
     \/ invocation.pc \in {"returned", "raised"} /\ invocation.nth < MaxInvocations
  /\ \E mode \in TriggerModes :
       LET first == invocation = NotInvoked IN
       invocation' =
         [pc |-> "execute", stage |-> "RESOLVE_ENDPOINT", args |-> BaseArgs, error |-> None,
          printed |-> <<>>, device |-> <<None>>, command |-> trigger_command(mode),
          runs_done |-> 0,
          effects |-> IF first THEN <<>> ELSE invocation.effects,
          backend |-> IF first THEN NoBackend ELSE invocation.backend,
          nth |-> IF first THEN 1 ELSE invocation.nth + 1]
  /\ Elsewhere

TriggerNext ==
  \/ InvokeTrigger
  \/ ResolveEndpoint \/ ValidatePreconditions \/ ArmBackend \/ AwaitTrigger \/ StopAndCollect
  \/ FatalFault
  \/ RunEnds

RunInit ==
  /\ raw = <<>>
  /\ parsed = Unparsed
  /\ adbPresent = TRUE
  /\ environ = None
  /\ attached = <<>>
  /\ device = None
  /\ last = Idle
  /\ poll = Idle
  /\ invocation = NotInvoked
  /\ backends = <<>>
  /\ adbd = "user"

RunNext ==
  \/ Invoke
  \/ ResolveEndpoint \/ ValidatePreconditions \/ ArmBackend \/ AwaitTrigger \/ StopAndCollect
  \/ InterRunDelay
  \/ FatalFault
  \/ RunEnds

SpecRun == RunInit /\ [][RunNext]_vars

SpecTrigger == RunInit /\ [][TriggerNext]_vars

-----------------------------------------------------------------------------
(* Claims about an invocation of torq (SpecRun) *)

Invoked == invocation # NotInvoked
ValidationStages == {"verify_args", "RESOLVE_ENDPOINT", "VALIDATE_PRECONDITIONS"}

\* a validation has yielded a ValidationError, and run has printed it and
\* returned
EndedOnError == Invoked /\ invocation.pc = "returned" /\ invocation.error # None

\* C1 as claimed: when argument or precondition validation yields a
\* ValidationError, the invocation prints the error and ends without raising,
\* and in that invocation no device object is constructed and no tracing side
\* effect (start of a trace, trigger, file pull) occurs.
C1_Original ==
  EndedOnError =>
    /\ invocation.printed[1] = Message(invocation.error)
    /\ invocation.device = NoDevice
    /\ invocation.effects = <<>>

\* C1 amended: when argument validation (verify_args) yields a
\* ValidationError, run prints the error (message, then the suggestion if
\* there is one) and returns without raising, no device object has been
\* constructed and no tracing side effect has occurred; when the validation
\* inside command.execute (endpoint resolution, preconditions) yields a
\* ValidationError, run likewise prints it and returns without raising and no
\* tracing side effect has occurred, but the device object has been
\* constructed, since run constructs it before it calls execute. Every
\* tracing side effect comes after all validation has passed.
C1_ValidationFirst ==
  Invoked =>
    /\ invocation.error # None =>
         /\ IsValidationError(invocation.error)
         /\ invocation.pc \in {"executed", "returned"}
         /\ invocation.stage \in ValidationStages
         /\ invocation.effects = <<>>
         /\ invocation.device = NoDevice <=> invocation.stage = "verify_args"
    /\ EndedOnError =>
         /\ invocation.printed[1] = Message(invocation.error)
         /\ Len(invocation.printed) = (IF Suggestion(invocation.error) = None THEN 1 ELSE 2)
         /\ Len(invocation.printed) = 2 =>
              invocation.printed[2] = <<"Suggestion:\n\t ">> \o Suggestion(invocation.error)
    /\ invocation.effects # <<>> =>
         /\ invocation.stage \notin ValidationStages
         /\ invocation.device # NoDevice
         /\ invocation.error = None
    /\ invocation.device = NoDevice => invocation.stage = "verify_args"

C1_Witness ==
  /\ EndedOnError
  /\ invocation.stage = "VALIDATE_PRECONDITIONS"
  /\ invocation.device # NoDevice
  /\ invocation.effects = <<>>
  /\ Len(invocation.printed) = 2

-----------------------------------------------------------------------------
(* Claims about get_adb_devices (SpecParse) *)

\* the lines of the listing as adb wrote them (without the closing empty line)
RawLines == DropLastTwo(Split(raw, NL))

IsDeviceLine(line) ==
  LET w == Split(line, TAB) IN Len(w) = 2 /\ w[2] = StatusDevice /\ w[1] # <<>>

RECURSIVE DeviceIds(_)
\* the ids of the lines whose status is "device", in listing order
DeviceIds(lines) ==
  IF lines = <<>> THEN <<>>
  ELSE IF IsDeviceLine(Head(lines))
       THEN <<Split(Head(lines), TAB)[1]>> \o DeviceIds(Tail(lines))
       ELSE DeviceIds(Tail(lines))

\* C8: get_adb_devices returns exactly the ids of the lines whose status is
\* "device", in the order adb reported them, and skips every other line
\* (header, daemon lines, other statuses, empty lines, lines without the
\* id<TAB>status shape) without raising.
C8_SkipsOtherLines ==
  parsed # Unparsed =>
    /\ ~parsed.raised
    /\ parsed.info = DeviceIds(RawLines)


-----------------------------------------------------------------------------
(* Claims about the endpoint directory and get_device (SpecDirectory) *)

DirValue == last.out.value
TransportFaults == {"SubprocessError", "CalledProcessError"}

\* the text typed is the decimal numeral of an index of the menu
IsIndex(typed, n) == \E k \in 0..(n - 1) : typed = Str(k)
IndexTyped(typed, n) == CHOOSE k \in 0..(n - 1) : typed = Str(k)

MenuCase ==
  /\ last.op = "get_default_serial"
  /\ adbPresent /\ environ = None /\ Len(last.listed) >= 2

\* C4: with adb present, ANDROID_SERIAL unset and n >= 2 devices listed,
\* get_default_serial returns (devices[k], None) when the user types the index
\* k in 0..n-1, and (None, ValidationError) for every other text typed; it
\* never raises an index or key fault.
C4_MenuChoice ==
  MenuCase =>
    IF last.out.raised THEN last.out.kind \in TransportFaults
    ELSE LET typed == last.arg[1]
             n == Len(last.listed) IN
         IF IsIndex(typed, n)
         THEN DirValue = <<last.listed[IndexTyped(typed, n) + 1], None>>
         ELSE DirValue[1] = None /\ IsValidationError(DirValue[2])

C4_Witness ==
  /\ MenuCase /\ ~last.out.raised
  /\ last.arg[1] = <<"1">>
  /\ DirValue = <<last.listed[2], None>>
  /\ last.listed[2] # last.listed[1]

VerifyReturned == last.op = "verify_serial" /\ ~last.out.raised

\* C5 as claimed: verify_serial(id) returns None if and only if id is in the
\* device list read by the call, and otherwise (also when no device at all is
\* connected) a ValidationError whose message names id.
C5_Original ==
  VerifyReturned =>
    /\ (DirValue = None) <=> last.reachable
    /\ DirValue # None =>
         IsValidationError(DirValue) /\ Names(Message(DirValue), last.serial)

\* C5 amended: verify_serial(id), when it returns, returns None if and only if
\* id is in the device list read by the call, and otherwise a ValidationError;
\* the message names id exactly when adb exists and at least one device is
\* connected; with no device connected it is the 'no devices connected'
\* message and without adb the 'adb could not be found' message, neither of
\* which names id.
C5_VerifySerial ==
  VerifyReturned =>
    /\ (DirValue = None) <=> last.reachable
    /\ DirValue # None =>
         /\ IsValidationError(DirValue)
         /\ Suggestion(DirValue) = None
         /\ Message(DirValue) =
              (IF ~adbPresent THEN MsgAdbNotFound
               ELSE IF Len(last.listed) = 0 THEN MsgNoDevices
               ELSE MsgNotConnected(last.serial))
         /\ Names(Message(DirValue), last.serial) <=> (adbPresent /\ Len(last.listed) > 0)

C5_Witness ==
  /\ VerifyReturned
  /\ ~last.reachable /\ Len(last.listed) > 0
  /\ Message(DirValue) = MsgNotConnected(last.serial)

DefaultReturned == last.op = "get_default_serial" /\ ~last.out.raised

Consulted(what) == what \in Range(last.out.reads)

\* C6: get_default_serial decides in a fixed order, the first applicable case
\* winning: adb missing -> (None, error); no device connected -> (None, error)
\* without consulting ANDROID_SERIAL; ANDROID_SERIAL set -> that serial if it
\* is listed (no prompt, also with several devices), else (None, error naming
\* it) even when exactly one other device is connected; exactly one device ->
\* that device, no prompt; otherwise the menu. ANDROID_SERIAL is consulted
\* only when at least one device is reachable.
C6_DecisionOrder ==
  DefaultReturned =>
    LET n == Len(last.listed) IN
    /\ Consulted("environ") => adbPresent /\ n > 0
    /\ IF ~adbPresent
       THEN DirValue = <<None, ValidationError(MsgAdbNotFound, None)>>
       ELSE IF n = 0
       THEN DirValue = <<None, ValidationError(MsgNoDevices, None)>>
       ELSE IF environ # None
       THEN /\ ~Consulted("input")
            /\ IF environ \in Range(last.listed)
               THEN DirValue = <<environ, None>>
               ELSE /\ DirValue[1] = None
                    /\ IsValidationError(DirValue[2])
                    /\ Names(Message(DirValue[2]), environ)
       ELSE IF n = 1
       THEN DirValue = <<last.listed[1], None>> /\ ~Consulted("input")
       ELSE Consulted("input")

C6_Witness ==
  /\ DefaultReturned
  /\ environ # None /\ Len(last.listed) = 1 /\ environ \notin Range(last.listed)
  /\ DirValue[1] = None /\ Names(Message(DirValue[2]), environ)

DeviceReturned == last.op = "get_device" /\ ~last.out.raised
ExplicitSerial == last.arg[1] # <<>>
IsDeviceRequired == last.arg[2][1]

\* C7 as claimed: get_device returns (device, error) with at most one
\* component set, and is_device_required alone decides what an unresolved
\* endpoint gives: (None, error) when it is true, (None, None) when it is
\* false, be the endpoint a default one or an explicit --serial.
C7_Original ==
  DeviceReturned =>
    /\ DirValue[1] = None \/ DirValue[2] = None
    /\ DirValue[1] = None => (DirValue[2] = None <=> ~IsDeviceRequired)

\* C7 amended: get_device returns (device, error) with at most one component
\* set; an explicit --serial that fails verification returns (None, error)
\* whatever is_device_required is; the flag decides only the default
\* resolution, whose failure gives (None, error) when it is true and
\* (None, None) when it is false.
C7_GetDevice ==
  DeviceReturned =>
    /\ DirValue[1] = None \/ DirValue[2] = None
    /\ DirValue[1] = None =>
         (DirValue[2] = None <=> (~ExplicitSerial /\ ~IsDeviceRequired))
    /\ DirValue[2] # None => IsValidationError(DirValue[2])
    /\ ExplicitSerial => (DirValue[1] # None <=> last.reachable)
    /\ DirValue[1] # None /\ ExplicitSerial => DirValue[1] = last.serial

C7_Witness ==
  /\ DeviceReturned
  /\ ExplicitSerial /\ ~IsDeviceRequired /\ ~last.reachable
  /\ DirValue[1] = None /\ IsValidationError(DirValue[2])

-----------------------------------------------------------------------------
(* Claims about the facade and its waits (Spec) *)

SyncOps ==
  {"get_pid", "is_process_running", "kill_process", "set_prop", "perform_user_switch",
   "pull_file", "file_exists", "remove_file", "user_exists"}
WaitOps == {"root_device", "reboot", "wait_for_device"}

\* of the operations above only user_exists has a ValidationError among the
\* values it returns
ReturnsValidationError ==
  /\ ~last.out.raised
  /\ last.op = "user_exists"
  /\ IsValidationError(last.out.value)

Detached == last.op \in SyncOps /\ ~last.reachable

\* C2: a facade operation other than the asynchronous starts, invoked on a
\* device whose serial is not in the reachable set at call time (the device
\* may have detached after get_device verified it), ends with a
\* ValidationError, never as a silent no-op.
C2_Original == Detached => ReturnsValidationError

\* the transport call traced by c failed: the subprocess failed, or exited
\* with a code the caller had not declared ignorable
TransportFailed(c) ==
  c.oserror \/ (c.returncode # EX_SUCCESS /\ c.returncode \notin c.ignore)

\* C3: a fault raised by the transport during an AndroidDevice or AdbShell
\* operation propagates to the caller unchanged: the operation makes no
\* further call (no retry), and ends raising that very fault, not a
\* ValidationError or a normal value, also in a polling predicate and in the
\* second command of kill_process and root_device.
C3_FaultsPropagate ==
  last.op \in SyncOps \cup WaitOps =>
    \A i \in 1..Len(last.out.calls) :
      LET c == last.out.calls[i] IN
      TransportFailed(c) =>
        /\ i = Len(last.out.calls)
        /\ last.out.raised
        /\ last.out.kind = c.kind
        /\ last.out.kind \in TransportFaults
        /\ last.out.info = c.info

C3_Witness ==
  /\ last.op = "kill_process"
  /\ Len(last.out.calls) = 2
  /\ TransportFailed(last.out.calls[2])
  /\ last.out.raised /\ last.out.kind = "CalledProcessError"

WaitEnded == last.op \in WaitOps /\ last.arg.state # "none"
Round == last.arg

\* C9: poll_is_task_completed evaluates the predicate at least once, returns
\* True at the first evaluation that yields true, with no evaluation or sleep
\* after it, returns False if no evaluation yields true before the time limit
\* is exceeded, and lets a fault of the predicate propagate at once.
C9_Polling ==
  WaitEnded =>
    /\ Round.p.evals >= 1
    /\ Round.p.sleeps = Round.p.evals - 1
    /\ Round.p.elapsed = Round.p.sleeps * Round.p.interval
    /\ Round.state = "true" <=> Round.p.trues = 1
    /\ Round.state # "true" => Round.p.trues = 0
    /\ Round.state = "false" => Round.p.elapsed > Round.p.limit
    /\ Round.state = "raised" =>
         last.out.raised /\ last.out.kind \in TransportFaults
    /\ last.op = "wait_for_device" /\ Round.state # "raised" =>
         ~last.out.raised /\ last.out.value = (Round.state = "true")

C9_Witness ==
  /\ WaitEnded
  /\ Round.state = "true" /\ Round.p.evals = 3 /\ Round.p.sleeps = 2

Command(op) == IF op = "root_device" THEN "root" ELSE "reboot"
MsgTimeout(op, serial) ==
  IF op = "root_device" THEN MsgRootTimeout(serial) ELSE MsgRebootTimeout(serial)

\* C10: root_device (reboot) issues its adb command exactly once and only then
\* polls the listing, every 0.5 s for at most 5 s; it returns normally only if
\* a poll saw the serial present in (absent from) the listing, and otherwise
\* raises an exception naming the serial and the operation; the command is
\* never issued again and the wait is never retried.
C10_RootAndReboot ==
  /\ poll # Idle /\ poll.op \in {"root_device", "reboot"} =>
       /\ Len(poll.calls) = 1
       /\ poll.calls[1].cmd = Command(poll.op) /\ ~poll.calls[1].raised
       /\ poll.interval = POLLING_INTERVAL_TENTHS
       /\ poll.elapsed = poll.evals * poll.interval
       /\ poll.elapsed <= Tenths(ADB_ROOT_TIMED_OUT_LIMIT_SECS) + poll.interval
  /\ last.op \in {"root_device", "reboot"} =>
       LET calls == last.out.calls IN
       /\ calls[1].cmd = Command(last.op)
       /\ \A i \in 2..Len(calls) : calls[i].cmd = "devices"
       /\ Len(calls) <= 2
       /\ last.arg.state = "none" <=> calls[1].raised
       /\ ~last.out.raised =>
            /\ last.arg.state = "true"
            /\ last.reachable <=> (last.op = "root_device")
       /\ last.arg.state = "false" =>
            /\ last.out.raised /\ last.out.kind = "Exception"
            /\ last.out.info = MsgTimeout(last.op, last.serial)
            /\ Names(last.out.info, last.serial)
            /\ \E i \in 1..Len(last.out.info) :
                 last.out.info[i] \in {" took too long to reconnect after being rooted.",
                                       " took too long to start rebooting."}
            /\ Round.p.elapsed > Tenths(ADB_ROOT_TIMED_OUT_LIMIT_SECS)
            /\ Round.p.elapsed <= Tenths(ADB_ROOT_TIMED_OUT_LIMIT_SECS) + POLLING_INTERVAL_TENTHS

C10_Witness ==
  /\ last.op = "root_device" /\ ~last.out.raised
  /\ Round.p.evals >= 2 /\ last.reachable

-----------------------------------------------------------------------------
(* Claims about the wait for the end of the boot (SpecBoot) *)

\* the outputs of getprop whose value is exactly "1"
ReadsOne == {<<"1", NL>>, <<" ", "1", NL>>}

BootWaitEnded == last.op = "wait_for_boot_to_complete"

\* C11: wait_for_boot_to_complete returns normally only if, while polling at
\* 0.5 s intervals for at most 30 s, a read of sys.boot_completed was exactly
\* "1" (is_boot_completed is true for that value and false for every other
\* value, the empty one included); when the time runs out it raises an
\* exception naming the serial.
C11_BootWait ==
  /\ last.op = "is_boot_completed" /\ ~last.out.raised =>
       (last.out.value <=> last.arg.read \in ReadsOne)
  /\ BootWaitEnded =>
       /\ last.arg.p.interval = 5 /\ last.arg.p.limit = 300
       /\ last.arg.p.elapsed = (last.arg.p.evals - 1) * 5
       /\ ~last.out.raised <=> last.arg.state = "true"
       /\ last.arg.state = "true" => last.arg.read \in ReadsOne
       /\ last.arg.state = "false" =>
            /\ last.out.kind = "Exception"
            /\ last.out.info = <<"Device with serial ">> \o last.serial
                                 \o <<" took too long to finish rebooting.">>
            /\ Names(last.out.info, last.serial)
            /\ last.arg.p.elapsed > 300 /\ last.arg.p.elapsed <= 305
       /\ last.arg.state = "raised" => last.out.kind \in TransportFaults

C11_Witness ==
  /\ BootWaitEnded /\ ~last.out.raised
  /\ last.arg.p.evals >= 2
  /\ last.arg.read = <<"1", NL>>

-----------------------------------------------------------------------------
(* Claims about the ceilings of the waits (Spec) *)

WaitTimedOut == last.op \in WaitOps /\ last.arg.state = "false"

\* C12: every wait on an asynchronous change of the device's state (reconnect
\* after root, start of the reboot, attach via wait_for_device) ends within
\* its ceiling, and a wait whose ceiling was exceeded ends in a fatal fault
\* naming the endpoint and the stuck operation, never in a plain False.
C12_TimeoutsAreFatal ==
  /\ poll # Idle => poll.elapsed <= poll.limit + poll.interval
  /\ WaitTimedOut =>
       /\ last.arg.p.elapsed <= last.arg.p.limit + last.arg.p.interval
       /\ last.out.raised
       /\ last.out.kind = "Exception"
       /\ Names(last.out.info, last.serial)

-----------------------------------------------------------------------------
(* Claims about the runs of a profiler session (SpecRun) *)

ProfilerSession ==
  Invoked /\ invocation.stage # "verify_args" /\ invocation.args.subcommands = "profiler"

SessionLog == invocation.effects
Positions(what, k) == {i \in 1..Len(SessionLog) : SessionLog[i].what = what /\ SessionLog[i].run = k}

SessionDone ==
  /\ ProfilerSession
  /\ invocation.pc \in {"executed", "returned"}
  /\ invocation.error = None

\* C13: a profiler session with runs = N executes its runs one after another
\* in the order 1..N, each run being start of the backend, wait, halt of the
\* backend and collection, with exactly one artifact pulled per run (N in
\* total), each pull after that run's start and that run's halt; the delay
\* between_dur_ms is waited between the collection of run i and the start of
\* run i+1, and not before run 1.
C13_RunsInOrder ==
  ProfilerSession =>
    LET N == invocation.args.runs IN
    /\ \A i \in 1..Len(SessionLog) : SessionLog[i].run \in 1..N
    /\ \A i \in 1..(Len(SessionLog) - 1) : SessionLog[i].run <= SessionLog[i + 1].run
    /\ \A k \in 1..N :
         /\ Cardinality(Positions("pull_file", k)) = (IF k <= invocation.runs_done THEN 1 ELSE 0)
         /\ Cardinality(Positions("start_trace", k)) <= 1
         /\ \A p \in Positions("pull_file", k) :
              /\ SessionLog[p].path = <<PERFETTO_TRACE_FILE>>
              /\ \E a \in Positions("start_trace", k), w \in Positions("wait", k),
                    t \in Positions("terminate", k) : a < w /\ w < t /\ t < p
         /\ \A a \in Positions("start_trace", k) :
              IF k = 1 THEN a = 1
              ELSE /\ SessionLog[a - 1] = Effect("delay", k, invocation.args.between_dur_ms, <<>>)
                   /\ \E p \in Positions("pull_file", k - 1) : p < a - 1
         /\ Cardinality(Positions("delay", k)) <= (IF k = 1 THEN 0 ELSE 1)
    /\ SessionDone =>
         /\ invocation.runs_done = N
         /\ Cardinality({i \in 1..Len(SessionLog) : SessionLog[i].what = "pull_file"}) = N

C13_Witness ==
  /\ SessionDone
  /\ invocation.args.runs = 2 /\ invocation.args.between_dur_ms = MIN_DURATION_MS
  /\ Cardinality({i \in 1..Len(SessionLog) : SessionLog[i].what = "pull_file"}) = 2
  /\ \E i \in 1..Len(SessionLog) : SessionLog[i] = Effect("delay", 2, MIN_DURATION_MS, <<>>)

-----------------------------------------------------------------------------
(* Claims about trigger sessions (SpecTrigger) *)

TriggerLog == IF Invoked THEN invocation.effects ELSE <<>>
Pulls == {i \in 1..Len(TriggerLog) : TriggerLog[i].what = "pull_file"}
ClonePulls == {i \in Pulls : Len(TriggerLog[i].path) > 1}

\* the mode of the invocation that made the i-th entry of the log: the mode
\* of the trigger it sent
ModeOf(i) ==
  LET t == CHOOSE j \in 1..Len(TriggerLog) :
             TriggerLog[j].what = "trigger" /\ TriggerLog[j].nth = TriggerLog[i].nth IN
  TriggerLog[t].path[1]

TriggerSessionDone ==
  Invoked /\ invocation.pc \in {"executed", "returned"} /\ invocation.error = None

\* C14: in a trigger session, successive clone-mode invocations pull
\* artifacts suffixed with an integer that starts at 0 and increases by one
\* per invocation (.0, then .1), and the backend is not terminated between
\* them; a stop-mode and a start-mode invocation pull exactly one artifact
\* from the unsuffixed fixed trace path, and a stop-mode invocation
\* terminates the backend.
C14_TriggerModes ==
  /\ \A p \in Pulls :
       /\ \A q \in Pulls : TriggerLog[q].nth = TriggerLog[p].nth => q = p
       /\ IF ModeOf(p) = "clone"
          THEN TriggerLog[p].path =
                 <<PERFETTO_TRACE_FILE, ".">> \o Str(Cardinality({q \in ClonePulls : q < p}))
          ELSE TriggerLog[p].path = <<PERFETTO_TRACE_FILE>>
  /\ \A i \in 1..Len(TriggerLog) :
       TriggerLog[i].what = "terminate" => ModeOf(i) # "clone"
  /\ TriggerSessionDone =>
       /\ \E p \in Pulls : TriggerLog[p].nth = invocation.nth
       /\ invocation.command.trigger_mode = "clone" => invocation.backend.running
       /\ invocation.command.trigger_mode \in {"stop", "start"} => ~invocation.backend.running

C14_Witness ==
  /\ TriggerSessionDone
  /\ invocation.command.trigger_mode = "clone" /\ invocation.backend.running
  /\ \E p, q \in ClonePulls :
       /\ TriggerLog[q].nth = TriggerLog[p].nth + 1
       /\ TriggerLog[p].path = <<PERFETTO_TRACE_FILE, ".", "0">>
       /\ TriggerLog[q].path = <<PERFETTO_TRACE_FILE, ".", "1">>
       /\ \A i \in p..q : TriggerLog[i].what # "terminate"

-----------------------------------------------------------------------------
(* Claims about a fatal fault in a session (SpecRun) *)

Faulted == Invoked /\ invocation.pc = "raised"

\* C15: when a fatal fault occurs in a state of run k of a session of N runs,
\* no state of the runs k+1..N is entered and run k is not retried: the
\* session does nothing more; the fault propagates out of the session (run
\* neither prints nor returns), and what the session had done to the device
\* stays as it was (a started trace is not rolled back).
C15_FaultUnwinds ==
  [][/\ Faulted => UNCHANGED invocation
     /\ (Invoked /\ invocation.pc = "execute" /\ invocation'.pc = "raised") =>
          /\ invocation'.effects = invocation.effects
          /\ invocation'.backend = invocation.backend
          /\ invocation'.runs_done = invocation.runs_done
          /\ invocation'.stage = invocation.stage
          /\ invocation'.printed = <<>>]_vars

\* the fault struck run 2 of 2 after its trace was started
C15_Witness ==
  /\ Faulted
  /\ invocation.command.runs = 2 /\ invocation.runs_done = 1
  /\ invocation.stage = "AWAIT_TRIGGER"
  /\ invocation.backend.running
  /\ invocation.effects[Len(invocation.effects)].what = "start_trace"

-----------------------------------------------------------------------------
(* Claims about simpleperf_event_exists (SpecSimpleperf) *)

EventsCall == last.op = "simpleperf_event_exists"

\* the events in the device's list
DeviceEvents ==
  LET lines == Split(raw, NL) IN
  {EventOf(lines[i]) : i \in {j \in 1..Len(lines) : ~HoldsNoEvent(lines[j])}}

MissingEvents == {e \in Range(last.arg.events) : e \notin DeviceEvents}

\* the call found simpleperf on the device and got its list
ListRead ==
  /\ EventsCall /\ ~last.out.raised
  /\ ~last.arg.ls.oserror /\ last.arg.ls.returncode = EX_SUCCESS

\* C16 as claimed: with simpleperf present on the device,
\* simpleperf_event_exists(events) returns None exactly when every requested
\* name appears as an event in the device's list, and otherwise returns one
\* ValidationError whose message lists exactly the requested names that do
\* not appear in it, for every request list, also one in which a name occurs
\* more than once.
C16_Original ==
  ListRead =>
    /\ last.out.value = None <=> MissingEvents = {}
    /\ last.out.value # None =>
         \E listed \in SeqsUpTo(EventNames, MaxEvents) :
           /\ Range(listed) = MissingEvents
           /\ last.out.value = ValidationError(MsgInvalidEvents(listed), MsgSeeValidEvents)

\* C17: simpleperf_event_exists never modifies the caller's list of events:
\* after the call, however it ended (None, the invalid-event error, the
\* simpleperf-missing error, the early exit once all events are found, an
\* exception), the list holds the same elements in the same order as before.
C17_CallerListKept ==
  EventsCall => last.arg.after = last.arg.events

\* the loop removed a found event from its list and the call ended with the
\* invalid-event error for the other
C17_Witness ==
  /\ ListRead
  /\ last.arg.events = <<EvClock, EvList>>
  /\ last.out.value = ValidationError(MsgInvalidEvents(<<EvList>>), MsgSeeValidEvents)
  /\ last.arg.after = <<EvClock, EvList>>

\* the device answered that /system/bin/simpleperf does not exist
SimpleperfAbsent ==
  /\ EventsCall
  /\ ~last.arg.ls.oserror /\ last.arg.ls.returncode = EX_FAILURE

\* C18: when /system/bin/simpleperf does not exist on the device,
\* simpleperf_event_exists returns the 'Simpleperf was not found' error, which
\* suggests to push the binary, and in that call neither issues the
\* 'simpleperf list' command nor scans a line; it never returns the
\* invalid-event error then, whatever events were requested.
C18_AbsentBinary ==
  SimpleperfAbsent =>
    /\ ~last.out.raised
    /\ last.out.value = ValidationError(MsgNoSimpleperf, MsgPushSimpleperf)
    /\ Len(last.out.calls) = 1 /\ last.out.calls[1].cmd = "ls"
    /\ last.arg.scanned = 0

\* simpleperf is absent while the request holds a name the device does not
\* list
C18_Witness ==
  /\ SimpleperfAbsent
  /\ Reachable(last.serial)
  /\ last.arg.events = <<EvClock, EvList>>
  /\ EvClock \in DeviceEvents
  /\ last.out.value = ValidationError(MsgNoSimpleperf, MsgPushSimpleperf)

-----------------------------------------------------------------------------
(* Claims about the users of the device (SpecUsers) *)

\* the ids the device reports, in its order
ReportedIds == CHOOSE ids \in UserReports : UsersText(ids) = raw

\* the call got the device's report
UsersRead ==
  /\ last.op \in {"get_all_users", "user_exists"}
  /\ ~last.arg.answer.oserror /\ last.arg.answer.returncode = EX_SUCCESS

\* C19: user_exists(u) returns None exactly when u is among the user ids the
\* device reports, and otherwise a ValidationError whose message names u and
\* the serial and whose suggestion enumerates every reported id, each once,
\* in the device's reporting order; get_all_users yields one integer id per
\* reported user, the integer before the first ':' of that user's line.
C19_UserExists ==
  UsersRead =>
    /\ ~last.out.raised
    /\ last.op = "get_all_users" => last.out.value = ReportedIds
    /\ last.op = "user_exists" =>
         /\ last.out.value = None <=> last.arg.user \in Range(ReportedIds)
         /\ last.out.value # None =>
              /\ IsValidationError(last.out.value)
              /\ Names(Message(last.out.value), Str(last.arg.user))
              /\ Names(Message(last.out.value), last.serial)
              /\ Suggestion(last.out.value) =
                   <<"Select from one of the following user IDs on device with serial ">>
                   \o last.serial \o <<": ">>
                   \o Join([i \in 1..Len(ReportedIds) |-> Str(ReportedIds[i])], <<", ">>)

\* user 1 is asked for on a device that reports the users 10 and 0
C19_Witness ==
  /\ UsersRead /\ last.op = "user_exists"
  /\ ReportedIds = <<10, 0>>
  /\ last.arg.user = 1
  /\ IsValidationError(last.out.value)
  /\ Names(Suggestion(last.out.value), <<": ", "1", "0", ", ", "0">>)

-----------------------------------------------------------------------------
(* Claims about processes on the device (SpecProcess) *)

ProcessCall == last.op \in {"get_pid", "is_process_running", "kill_process"}

\* what get_pid makes of the answer the call got from pidof
LookedUp == get_pid(last.arg.pidof)

\* pidof answered that no process has the name
NoProcess ==
  /\ ProcessCall
  /\ last.reachable /\ raw = <<>>
  /\ ~last.arg.pidof.oserror

-----------------------------------------------------------------------------
(* Claims about operations of one transport call (SpecCommands) *)

\* the command of the call ran on the device and ended with an exit code
Answered(op) == last.op = op /\ ~last.arg.answer.oserror

\* C21 as claimed: start_package returns a ValidationError, never a fatal
\* fault, whenever 'am start' wrote anything to its standard error, and
\* returns None whenever that stream is empty, whatever exit code the command
\* returned.
C21_Original ==
  Answered("start_package") =>
    /\ ~last.out.raised
    /\ IF last.arg.answer.stderr # <<>>
       THEN IsValidationError(last.out.value)
       ELSE last.out.value = None

\* C22: file_exists, remove_file and pull_file return True when their command
\* exits with 0 and False, a plain negative result and neither an error value
\* nor a fault, when it exits with the declared failure code 1;
\* create_directory declares no exit code ignorable, so every exit of its
\* command other than 0 is a fatal fault, and it never returns a negative
\* result.
C22_ExitCodes ==
  /\ \A op \in {"file_exists", "remove_file", "pull_file"} :
       (Answered(op) /\ last.arg.answer.returncode \in {EX_SUCCESS, EX_FAILURE}) =>
          /\ ~last.out.raised
          /\ last.out.value = (last.arg.answer.returncode = EX_SUCCESS)
  /\ Answered("create_directory") =>
       /\ last.out.raised <=> last.arg.answer.returncode # EX_SUCCESS
       /\ ~last.out.raised => last.out.value = None
       /\ last.out.calls[1].ignore = {}

\* the file is not there: 'ls' ends with 1 on a reachable device and
\* file_exists returns False
C22_Witness ==
  /\ Answered("file_exists") /\ last.reachable
  /\ last.arg.answer.returncode = EX_FAILURE
  /\ ~last.out.raised /\ last.out.value = FALSE

-----------------------------------------------------------------------------
(* Claims about the starts of the backends (SpecTrace) *)

Starts == {"start_perfetto_trace", "start_simpleperf_trace"}

\* the last call was a start and it returned
StartReturned(l) == l.op \in Starts /\ ~l.out.raised

\* C23: start_perfetto_trace and start_simpleperf_trace return the handle
\* Popen produced, unchanged, and return without waiting for the backend to
\* finish: when either call returns, the process it started is running, next
\* to the caller, and it stops only when the caller terminates it or when it
\* ends by itself; no start touches a process started before.
C23_StartsDoNotWait ==
  [][/\ (last' # last /\ StartReturned(last')) =>
          /\ last'.out.value = last'.arg.popen.handle
          /\ Len(backends') = Len(backends) + 1
          /\ last'.out.value = Len(backends')
          /\ backends'[last'.out.value].state = "running"
          /\ \A i \in 1..Len(backends) : backends'[i] = backends[i]
     /\ \A i \in 1..Len(backends) :
          backends'[i] # backends[i] =>
            /\ backends[i].state = "running"
            /\ last' = last
            /\ \/ backends'[i].state = "ended"
               \/ backends'[i].state = "terminated" /\ StartReturned(last)
                    /\ last.out.value = i]_vars

\* both starts have returned and the process of the first still runs next to
\* the second
C23_Witness ==
  /\ StartReturned(last) /\ last.op = "start_simpleperf_trace"
  /\ last.out.value = 2
  /\ backends[1].shell /\ backends[1].state = "running"
  /\ backends[2].state = "running"

\* the arguments start_simpleperf_trace handed to Popen
SimpleperfArgs == last.arg.popen.cmd
DurationArgs == {i \in 1..Len(SimpleperfArgs) : Names(SimpleperfArgs[i], <<"--duration ">>)}
EventArgs == {i \in 1..Len(SimpleperfArgs) : Names(SimpleperfArgs[i], <<"-e ">>)}

\* the least whole number of seconds that is not less than ms / 1000
LeastSecs(ms) == CHOOSE n \in 0..ms : n * 1000 >= ms /\ \A m \in 0..(n - 1) : m * 1000 < ms

\* C25: start_simpleperf_trace passes '--duration d' to simpleperf, d being
\* the smallest whole number of seconds not less than dur_ms / 1000
\* (3000 -> 3, 3001 -> 4), whenever dur_ms is set, and no limit of the
\* duration when dur_ms is None; the requested events are passed as one '-e'
\* list joined by commas, in the order of the request.
C25_SimpleperfArgs ==
  last.op = "start_simpleperf_trace" =>
    LET command == last.arg.command IN
    /\ IF command.dur_ms = NotPassed
       THEN DurationArgs = {}
       ELSE \E i \in DurationArgs :
              /\ DurationArgs = {i}
              /\ SimpleperfArgs[i] = <<"--duration ">> \o Str(LeastSecs(command.dur_ms[1]))
    /\ \E i \in EventArgs :
         /\ EventArgs = {i}
         /\ Head(SimpleperfArgs[i]) = "-e "
         /\ [k \in 1..Len(command.simpleperf_event) |->
               Split(Tail(SimpleperfArgs[i]), ",")[k]] = command.simpleperf_event
         /\ Len(Split(Tail(SimpleperfArgs[i]), ",")) = Len(command.simpleperf_event)

\* 3001 ms become 4 s, for two events
C25_Witness ==
  /\ last.op = "start_simpleperf_trace" /\ ~last.out.raised
  /\ last.arg.command.dur_ms = <<3001>>
  /\ last.arg.command.simpleperf_event = << <<"instructions">>, <<"cpu-cycles">> >>
  /\ \E i \in DurationArgs : SimpleperfArgs[i] = <<"--duration ", "4">>
  /\ \E i \in EventArgs : SimpleperfArgs[i] = <<"-e ", "instructions", ",", "cpu-cycles">>

-----------------------------------------------------------------------------
(* Claims about the lines of 'simpleperf list' (SpecEventLines) *)

\* the line is indented by exactly two spaces and no '#' follows the indent
NamesAnEvent(line) ==
  /\ Len(line) >= 3
  /\ line[1] = " " /\ line[2] = " "
  /\ line[3] \notin {" ", "#"}

\* the text after the indent up to the first space
NamedEvent(line) ==
  LET ends == {i \in 3..Len(line) : line[i] = " "}
      stop == IF ends = {} THEN Len(line) + 1
              ELSE CHOOSE i \in ends : \A j \in ends : i <= j IN
  SubSeq(line, 3, stop - 1)

LineScanned == parsed.kind = "scanned"

\* C24 as claimed: a line of the list is treated as an event name exactly
\* when it is indented by exactly two spaces and the character after the
\* indent is not '#'; the name is the text after the indent up to the first
\* space; every other line, also one indented by more than two spaces,
\* contributes no event, and every line that satisfies the rule, however
\* short its name, contributes one.
C24_Original ==
  LineScanned =>
    (parsed.info.found <=> (NamesAnEvent(raw) /\ NamedEvent(raw) = parsed.info.name))

-----------------------------------------------------------------------------
(* Claims about root_device and the restart of the daemon (SpecRoot) *)

RootReturned == last.op = "root_device" /\ ~last.out.raised

\* C26 as claimed: when root_device returns normally, the listing it relied
\* on was read after the device had dropped off for the change of privilege,
\* so on return the device is connected under the rooted session and stays
\* addressable for the next call; a listing read before the device dropped
\* off does not count as the reconnect.
C26_Original ==
  RootReturned => adbd = "root" /\ Reachable(device)

-----------------------------------------------------------------------------
(* Claims about kill_process and the exit of its target (SpecKill) *)

\* the lookup found the pid and the process had exited when the kill command
\* ran
ExitedBeforeKill ==
  /\ last.op = "kill_process" /\ last.reachable
  /\ last.arg.exited
  /\ Len(last.out.calls) = 2 /\ ~last.out.calls[2].oserror

\* C27 as claimed: kill_process tolerates the exit of the target process
\* between its lookup of the pid and its kill command: when the process runs
\* no more as the kill command executes, kill_process still completes without
\* raising, as it does when the lookup finds no pid.
C27_Original == ExitedBeforeKill => ~last.out.raised

-----------------------------------------------------------------------------
(* Claims about verify_profiler_args (SpecArgs) *)

VerifierReturned == last.op = "verify_profiler_args"
VerifierRejected == VerifierReturned /\ last.error # None
VerifierAccepted == VerifierReturned /\ last.error = None

\* C28 as claimed: when verify_profiler_args returns a ValidationError, the
\* args object it was given is left exactly as received; no field is
\* defaulted, added or rewritten on any error path.
C28_Original == VerifierRejected => last.object = last.given

\* some element stands at two places of the list
Repeats(list) == \E i, j \in 1..Len(list) : i # j /\ list[i] = list[j]

\* C29: whenever verify_profiler_args returns success, the args returned are
\* mutually consistent: to_user is set exactly when the event is user-switch,
\* from_user only when it is; app is set exactly when the event is
\* app-startup; simpleperf_event is set exactly when the profiler is
\* simpleperf, is ['cpu-cycles'] when it was not passed, and repeats no event;
\* the ftrace lists are set only for perfetto and share no event; and the
\* pair (event, profiler) is not (boot, simpleperf).
C29_ConsistentArgs ==
  VerifierAccepted =>
    LET a == last.args IN
    /\ Passed(a.to_user) <=> a.event = "user-switch"
    /\ Passed(a.from_user) => a.event = "user-switch"
    /\ Passed(a.app) <=> a.event = "app-startup"
    /\ Passed(a.simpleperf_event) <=> a.profiler = "simpleperf"
    /\ a.profiler = "simpleperf" /\ ~Passed(last.given.simpleperf_event)
         => a.simpleperf_event = <<"cpu-cycles">>
    /\ ~Repeats(a.simpleperf_event)
    /\ Passed(a.excluded_ftrace_events) \/ Passed(a.included_ftrace_events)
         => a.profiler = "perfetto"
    /\ Range(a.excluded_ftrace_events) \cap Range(a.included_ftrace_events) = {}
    /\ ~(a.event = "boot" /\ a.profiler = "simpleperf")

\* a user switch recorded by simpleperf was accepted with the events defaulted
C29_Witness ==
  /\ VerifierAccepted
  /\ last.args.profiler = "simpleperf" /\ ~Passed(last.given.simpleperf_event)
  /\ last.args.event = "user-switch" /\ Passed(last.args.to_user)

\* C30: whenever verify_profiler_args returns success, runs is at least 1,
\* dur_ms is None or at least 3000, between_dur_ms is at least 3000 and differs
\* from its default 10000 only if runs is greater than 1, args.ui is a definite
\* boolean, an unspecified --ui has become runs == 1, and runs greater than 1
\* implies that ui is false: the UI is never requested for a session of
\* several runs.
C30_RunsAndUi ==
  VerifierAccepted =>
    LET a == last.args IN
    /\ a.runs >= 1
    /\ ~Passed(a.dur_ms) \/ a.dur_ms[1] >= 3000
    /\ a.between_dur_ms >= 3000
    /\ a.between_dur_ms # 10000 => a.runs > 1
    /\ a.ui \in {<<TRUE>>, <<FALSE>>}
    /\ ~Passed(last.given.ui) => a.ui = <<a.runs = 1>>
    /\ a.runs > 1 => a.ui = <<FALSE>>

\* a session of two runs with its own delay was accepted with --ui left out
C30_Witness ==
  /\ VerifierAccepted
  /\ last.args.runs = 2 /\ ~Passed(last.given.ui)
  /\ last.args.between_dur_ms = 3000

====
